---- MODULE Spec2Model ----
(***************************************************************************)
(* Model of the safety / resilience layer of apple-mcp:                    *)
(*   utils/security.ts  - validators, escaping, RateLimiter, AuditLogger   *)
(*   mail module        - checkMailAccess, getUnreadMails, searchMails,    *)
(*                        sendMail                                         *)
(* Strings are sequences of atomic pieces of text (one TLA+ string per     *)
(* piece); the length of a string is the number of its pieces.             *)
(***************************************************************************)
EXTENDS Integers, Sequences, FiniteSets, TLC

VARIABLES
  now,        \* Date.now(), in ticks
  config,     \* securityConfig
  limits,     \* rateLimiters: limiter name -> its private Map key -> entry
  hist,       \* per limiter and key: the check calls made in the current window
  lastCheck,  \* the most recent RateLimiter.check call and what it returned
  auditLog,   \* AuditLogger.logs
  pc,         \* per logical operation: where its async function is suspended
  op,         \* per logical operation: its name and local variables
  calls,      \* per logical operation: the external automation calls made so far
  result,     \* per logical operation: what the caller received
  call        \* the most recent call of a pure helper: its arguments and what it returned

vars == <<now, config, limits, hist, lastCheck, auditLog, pc, op, calls, result, call>>

-----------------------------------------------------------------------------
(* Bounds of the model *)

MaxTime == 2          \* the clock stops ticking here
MaxLog == 1           \* operations that log start only while the log is shorter
MaxGroups == 2        \* brace groups in one primary output
MaxFound == 2         \* messages the object-automation call finds in a mailbox
LimitSpan == 501      \* limits passed to sanitizeLimit lie in -LimitSpan..LimitSpan
MaxStr == 3           \* characters in a string passed to the escaping functions
MaxParam == 2         \* characters in a string parameter of a query

(* Program constants, scaled: the window length and the per-class limits *)
WindowMs == 2         \* 60000 in the source
MaxSearch == 2        \* rateLimiters.search: 30 in the source
MaxEmails == 2        \* rateLimiters.emails: 20 in the source
MaxGlobal == 3        \* rateLimiters.global: 100 in the source
SearchQueryMax == 4   \* searchQuerySchema.max: 500 in the source
MessageContentMax == 4 \* messageContentSchema.max: 10000 in the source
EmailMax == 254       \* emailSchema.max
DefaultLimit == 10    \* what sanitizeLimit returns for an unusable limit
SubjectPreview == 50  \* characters of the subject kept in the audit entry
MaxSearchResults == 100 \* securityConfig.maxSearchResults, by default

-----------------------------------------------------------------------------
(* Small helpers on sequences *)

Range(s) == {s[i] : i \in DOMAIN s}

Min(a, b) == IF a < b THEN a ELSE b

Max(a, b) == IF a > b THEN a ELSE b

SubSeqFrom(s, i) == SubSeq(s, i, Len(s))

-----------------------------------------------------------------------------
(* RateLimiter (security.ts) *)

Limiters == {"search", "emails", "global"}

Keys == {"global", "other"}

maxRequests(l) ==
  CASE l = "search" -> MaxSearch
    [] l = "emails" -> MaxEmails
    [] l = "global" -> MaxGlobal

(* this.limits.set(key, entry) *)
MapSet(tbl, key, entry) ==
  [k \in (DOMAIN tbl) \cup {key} |-> IF k = key THEN entry ELSE tbl[k]]

(* RateLimiter.check at time t against the table tbl: the verdict and the
   table afterwards *)
MutCheckOffByOne(tbl, key, t, max) ==
  IF key \notin DOMAIN tbl \/ tbl[key].resetAt <= t
  THEN [allowed |-> TRUE,
        limits |-> MapSet(tbl, key, [count |-> 1, resetAt |-> t + WindowMs])]
  ELSE IF tbl[key].count > max
       THEN [allowed |-> FALSE, limits |-> tbl]
       ELSE [allowed |-> TRUE,
             limits |-> [tbl EXCEPT ![key].count = @ + 1]]

MutCheckCountsDenied(tbl, key, t, max) ==
  IF key \notin DOMAIN tbl \/ tbl[key].resetAt <= t
  THEN [allowed |-> TRUE,
        limits |-> MapSet(tbl, key, [count |-> 1, resetAt |-> t + WindowMs])]
  ELSE IF tbl[key].count >= max
       THEN [allowed |-> FALSE,
             limits |-> [tbl EXCEPT ![key].count = @ + 1]]
       ELSE [allowed |-> TRUE,
             limits |-> [tbl EXCEPT ![key].count = @ + 1]]

MutCheckExpiresEarly(tbl, key, t, max) ==
  IF key \notin DOMAIN tbl \/ tbl[key].resetAt <= t + 1
  THEN [allowed |-> TRUE,
        limits |-> MapSet(tbl, key, [count |-> 1, resetAt |-> t + WindowMs])]
  ELSE IF tbl[key].count >= max
       THEN [allowed |-> FALSE, limits |-> tbl]
       ELSE [allowed |-> TRUE,
             limits |-> [tbl EXCEPT ![key].count = @ + 1]]

MutCheckKeepsCount(tbl, key, t, max) ==
  IF key \notin DOMAIN tbl
  THEN [allowed |-> TRUE,
        limits |-> MapSet(tbl, key, [count |-> 1, resetAt |-> t + WindowMs])]
  ELSE IF tbl[key].resetAt <= t
       THEN [allowed |-> TRUE,
             limits |-> [tbl EXCEPT ![key].resetAt = t + WindowMs]]
       ELSE IF tbl[key].count >= max
            THEN [allowed |-> FALSE, limits |-> tbl]
            ELSE [allowed |-> TRUE,
                  limits |-> [tbl EXCEPT ![key].count = @ + 1]]

RateLimiterCheck(tbl, key, t, max) ==
  IF key \notin DOMAIN tbl \/ tbl[key].resetAt <= t
  THEN [allowed |-> TRUE,
        limits |-> MapSet(tbl, key, [count |-> 1, resetAt |-> t + WindowMs])]
  ELSE IF tbl[key].count >= max
       THEN [allowed |-> FALSE, limits |-> tbl]
       ELSE [allowed |-> TRUE,
             limits |-> [tbl EXCEPT ![key].count = @ + 1]]

(* RateLimiter.reset *)
RateLimiterReset(tbl, key) == [k \in (DOMAIN tbl) \ {key} |-> tbl[k]]

(* The window a caller observes for one key: when its first call was made,
   how many calls were made in it so far (counted up to max + 2), and whether
   it followed an earlier window of the key *)
NoWindow == [start |-> -1, n |-> 0, rolled |-> FALSE]

HistAfter(h, t, max) ==
  IF h.start < 0 \/ t >= h.start + WindowMs
  THEN [start |-> t, n |-> 1, rolled |-> h.start >= 0]
  ELSE [start |-> h.start, n |-> Min(h.n + 1, max + 2), rolled |-> h.rolled]

NoCheck == [limiter |-> "none", key |-> "none", at |-> 0, allowed |-> TRUE]

-----------------------------------------------------------------------------
(* Strings and validators (security.ts) *)

Whitespace == {" ", "\n", "\r", "\t"}

RECURSIVE TrimStart(_)
TrimStart(s) ==
  IF s # <<>> /\ Head(s) \in Whitespace THEN TrimStart(Tail(s)) ELSE s

RECURSIVE TrimEnd(_)
TrimEnd(s) ==
  IF s # <<>> /\ s[Len(s)] \in Whitespace
  THEN TrimEnd(SubSeq(s, 1, Len(s) - 1))
  ELSE s

(* String.prototype.trim *)
Trim(s) == TrimEnd(TrimStart(s))

(* DANGEROUS_PATTERNS: pieces that spell a one-word signature in either
   case, and the signature of three words separated by whitespace *)
SignatureWords == {"eval", "EVAL", "exec", "osascript"}

RECURSIVE SkipWhitespace(_, _)
SkipWhitespace(s, i) ==
  IF i <= Len(s) /\ s[i] \in Whitespace THEN SkipWhitespace(s, i + 1) ELSE i

(* /do\s+shell\s+script/ matched at position i *)
ShellScriptAt(s, i) ==
  /\ i + 4 <= Len(s)
  /\ s[i] = "do"
  /\ s[i + 1] \in Whitespace
  /\ LET j == SkipWhitespace(s, i + 1) IN
       /\ j + 2 <= Len(s)
       /\ s[j] = "shell"
       /\ s[j + 1] \in Whitespace
       /\ LET k == SkipWhitespace(s, j + 1) IN
            k <= Len(s) /\ s[k] = "script"

containsDangerousPattern(s) ==
  \/ \E i \in DOMAIN s : s[i] \in SignatureWords
  \/ \E i \in DOMAIN s : ShellScriptAt(s, i)

NoField == "undefined"

ValidationError(message, field) ==
  [name |-> "ValidationError", field |-> field, message |-> <<message>>]

Error(message) == [name |-> "Error", field |-> NoField, message |-> message]

NoError == [name |-> "none", field |-> NoField, message |-> <<>>]

Valid(v) == [ok |-> TRUE, value |-> v, error |-> NoError]

Invalid(e) == [ok |-> FALSE, value |-> <<>>, error |-> e]

(* searchQuerySchema.parse, then the pattern scan *)
validateSearchQuery(query) ==
  IF Len(query) < 1 \/ Len(query) > SearchQueryMax
  THEN Invalid(ValidationError("Invalid search query", "searchQuery"))
  ELSE IF containsDangerousPattern(Trim(query))
       THEN Invalid(ValidationError("Search query contains forbidden patterns",
                                    "searchQuery"))
       ELSE Valid(Trim(query))

(* messageContentSchema.parse, then the pattern scan *)
validateMessageContent(content) ==
  IF Len(content) < 1 \/ Len(content) > MessageContentMax
  THEN Invalid(ValidationError("Invalid message content", "message"))
  ELSE IF containsDangerousPattern(content)
       THEN Invalid(ValidationError("Message contains forbidden patterns",
                                    "message"))
       ELSE Valid(content)

(* z.string().email(): a local part, an at sign and a dotted domain *)
IsEmailShaped(s) ==
  Len(s) = 3 /\ s[1] \in {"bob", "al", "eval"} /\ s[2] = "@" /\ s[3] \in {"x.org"}

validateEmail(email) ==
  IF IsEmailShaped(email) /\ Len(email) <= EmailMax
  THEN Valid(email)
  ELSE Invalid(ValidationError("Invalid email address", "email"))

(* A JavaScript number: NaN, or the value twice / 2 *)
Num(i) == [nan |-> FALSE, twice |-> 2 * i]

NaN == [nan |-> TRUE, twice |-> 0]

MutSanitizeLimitAllowsZero(limit, max) ==
  IF limit.nan \/ (limit.twice \div 2) < 0
  THEN DefaultLimit
  ELSE Min(limit.twice \div 2, max)

(* Math.floor, then the range test and the cap *)
sanitizeLimit(limit, max) ==
  IF limit.nan \/ (limit.twice \div 2) < 1
  THEN DefaultLimit
  ELSE Min(limit.twice \div 2, max)

(* the copy of sanitizeLimit in database.ts *)
dbSanitizeLimit(limit, max) ==
  LET parsed == limit.twice \div 2 IN
  IF limit.nan \/ parsed < 1 THEN DefaultLimit ELSE Min(parsed, max)

-----------------------------------------------------------------------------
(* Text returned by the script interpreter, and the functions applied to it.
   A text is a sequence of pieces: the punctuation marks, whitespace, bare
   words and double-quoted words.  No word holds a punctuation mark. *)

Unquote ==
  ("\"subject\"" :> <<"subject">>) @@ ("\"sender\"" :> <<"sender">>) @@
  ("\"mailbox\"" :> <<"mailbox">>) @@ ("\"boxName\"" :> <<"boxName">>) @@
  ("\"v1\"" :> <<"v1">>) @@ ("\"v2\"" :> <<"v2">>) @@ ("\"v3\"" :> <<"v3">>) @@
  ("\"\"" :> <<>>)

(* JSON values *)
JString(str) == [type |-> "string", str |-> str, items |-> <<>>, fields |-> <<>>]

JArray(items) == [type |-> "array", str |-> <<>>, items |-> items, fields |-> <<>>]

JObject(fields) == [type |-> "object", str |-> <<>>, items |-> <<>>, fields |-> fields]

JUndefined == [type |-> "undefined", str |-> <<>>, items |-> <<>>, fields |-> <<>>]

ParseFail == [ok |-> FALSE, val |-> JUndefined, next |-> 0]

ParseOk(v, next) == [ok |-> TRUE, val |-> v, next |-> next]

RECURSIVE ParseValue(_, _)
RECURSIVE ParseElements(_, _, _)
RECURSIVE ParseMembers(_, _, _)

(* one JSON value starting at or after position i *)
ParseValue(t, i) ==
  LET j == SkipWhitespace(t, i) IN
  IF j > Len(t) THEN ParseFail
  ELSE IF t[j] \in DOMAIN Unquote THEN ParseOk(JString(Unquote[t[j]]), j + 1)
  ELSE IF t[j] = "["
       THEN LET k == SkipWhitespace(t, j + 1) IN
            IF k <= Len(t) /\ t[k] = "]"
            THEN ParseOk(JArray(<<>>), k + 1)
            ELSE ParseElements(t, j + 1, <<>>)
  ELSE IF t[j] = "{"
       THEN LET k == SkipWhitespace(t, j + 1) IN
            IF k <= Len(t) /\ t[k] = "}"
            THEN ParseOk(JObject(<<>>), k + 1)
            ELSE ParseMembers(t, j + 1, <<>>)
  ELSE ParseFail

ParseElements(t, i, acc) ==
  LET v == ParseValue(t, i) IN
  IF ~v.ok THEN ParseFail
  ELSE LET k == SkipWhitespace(t, v.next) IN
       IF k > Len(t) THEN ParseFail
       ELSE IF t[k] = "]" THEN ParseOk(JArray(Append(acc, v.val)), k + 1)
       ELSE IF t[k] = "," THEN ParseElements(t, k + 1, Append(acc, v.val))
       ELSE ParseFail

ParseMembers(t, i, acc) ==
  LET j == SkipWhitespace(t, i) IN
  IF j > Len(t) \/ t[j] \notin DOMAIN Unquote THEN ParseFail
  ELSE LET c == SkipWhitespace(t, j + 1) IN
       IF c > Len(t) \/ t[c] # ":" THEN ParseFail
       ELSE LET v == ParseValue(t, c + 1) IN
            IF ~v.ok THEN ParseFail
            ELSE LET k == SkipWhitespace(t, v.next)
                     more == Append(acc, <<Unquote[t[j]], v.val>>)
                 IN IF k > Len(t) THEN ParseFail
                    ELSE IF t[k] = "}" THEN ParseOk(JObject(more), k + 1)
                    ELSE IF t[k] = "," THEN ParseMembers(t, k + 1, more)
                    ELSE ParseFail

(* JSON.parse: the value, or a SyntaxError *)
JSONParse(t) ==
  LET v == ParseValue(t, 1) IN
  IF v.ok /\ SkipWhitespace(t, v.next) > Len(t)
  THEN [ok |-> TRUE, val |-> v.val]
  ELSE [ok |-> FALSE, val |-> JUndefined]

(* obj[key] of an object given as its list of <<key, value>> pairs: a later
   pair overwrites an earlier one *)
RECURSIVE Lookup(_, _, _)
Lookup(pairs, key, missing) ==
  IF pairs = <<>> THEN missing
  ELSE IF pairs[Len(pairs)][1] = key THEN pairs[Len(pairs)][2]
  ELSE Lookup(SubSeq(pairs, 1, Len(pairs) - 1), key, missing)

(* msg.key of a parsed JSON value *)
Property(msg, key) ==
  IF msg.type = "object" THEN Lookup(msg.fields, key, JUndefined) ELSE JUndefined

(* JavaScript truthiness of a JSON value *)
Truthy(v) ==
  CASE v.type = "undefined" -> FALSE
    [] v.type = "string" -> v.str # <<>>
    [] OTHER -> TRUE

(* msg.key || fallback, the key holding a string when it is there *)
PropertyOr(msg, key, fallback) ==
  IF Truthy(Property(msg, key)) THEN Property(msg, key).str ELSE fallback

(* String.prototype.split on a one-character separator *)
RECURSIVE Split(_, _)
Split(s, sep) ==
  IF \A i \in DOMAIN s : s[i] # sep THEN <<s>>
  ELSE LET i == CHOOSE x \in DOMAIN s :
                  s[x] = sep /\ \A y \in 1..(x - 1) : s[y] # sep
       IN <<SubSeq(s, 1, i - 1)>> \o Split(SubSeqFrom(s, i + 1), sep)

(* Array.prototype.join *)
RECURSIVE Join(_, _)
Join(parts, sep) ==
  IF parts = <<>> THEN <<>>
  ELSE IF Len(parts) = 1 THEN parts[1]
  ELSE parts[1] \o <<sep>> \o Join(Tail(parts), sep)

(* the position of the first closing brace at or after i, 0 if none *)
RECURSIVE NextClose(_, _)
NextClose(t, i) ==
  IF i > Len(t) THEN 0
  ELSE IF t[i] = "}" THEN i
  ELSE NextClose(t, i + 1)

(* text.match(/\{([^}]+)\}/g), scanning from position i *)
RECURSIVE MatchGroups(_, _)
MatchGroups(t, i) ==
  IF i > Len(t) THEN <<>>
  ELSE IF t[i] # "{" THEN MatchGroups(t, i + 1)
  ELSE LET e == NextClose(t, i + 1) IN
       IF e = 0 THEN <<>>
       ELSE IF e = i + 1 THEN MatchGroups(t, i + 1)
       ELSE <<SubSeq(t, i, e)>> \o MatchGroups(t, e + 1)

(* text.includes(word) *)
Includes(t, word) ==
  \E i \in DOMAIN t :
    \/ t[i] = word
    \/ t[i] \in DOMAIN Unquote /\ Unquote[t[i]] = <<word>>

StartsWith(t, piece) == t # <<>> /\ t[1] = piece

-----------------------------------------------------------------------------
(* EmailMessage records and the parsing of the primary output (mail module) *)

NoSubject == <<"No subject">>

UnknownSender == <<"Unknown sender">>

UnknownMailbox == <<"Unknown mailbox">>

ContentNotAvailable == <<"[Content not available]">>

ContentNotThroughAppleScript ==
  <<"[Content not available through AppleScript method]">>

DateNow == <<"new Date().toString()">>

EmailMessage(subject, sender, dateSent, content, isRead, mailbox) ==
  [subject |-> subject, sender |-> sender, dateSent |-> dateSent,
   content |-> content, isRead |-> isRead, mailbox |-> mailbox]

(* getUnreadMails: the mapping of one parsed JSON record *)
MutMapUnreadNoSenderDefault(msg) ==
  EmailMessage(PropertyOr(msg, <<"subject">>, NoSubject),
               Property(msg, <<"sender">>).str,
               PropertyOr(msg, <<"date">>, DateNow),
               PropertyOr(msg, <<"content">>, ContentNotAvailable),
               FALSE,
               PropertyOr(msg, <<"mailbox">>, UnknownMailbox))

MapUnreadRecord(msg) ==
  EmailMessage(PropertyOr(msg, <<"subject">>, NoSubject),
               PropertyOr(msg, <<"sender">>, UnknownSender),
               PropertyOr(msg, <<"date">>, DateNow),
               PropertyOr(msg, <<"content">>, ContentNotAvailable),
               FALSE,
               PropertyOr(msg, <<"mailbox">>, UnknownMailbox))

(* searchMails: the mapping of one parsed JSON record *)
MapSearchRecord(msg) ==
  EmailMessage(PropertyOr(msg, <<"subject">>, NoSubject),
               PropertyOr(msg, <<"sender">>, UnknownSender),
               PropertyOr(msg, <<"date">>, DateNow),
               ContentNotThroughAppleScript,
               Truthy(Property(msg, <<"isRead">>)),
               PropertyOr(msg, <<"boxName">>, UnknownMailbox))

(* the key-value pairs of one brace group: split on commas, then on colons *)
RECURSIVE ParseProps(_, _)
ParseProps(props, emailData) ==
  IF props = <<>> THEN emailData
  ELSE LET parts == Split(Head(props), ":") IN
       IF Len(parts) >= 2
       THEN ParseProps(Tail(props),
                       Append(emailData, <<Trim(parts[1]),
                                           Trim(Join(Tail(parts), ":"))>>))
       ELSE ParseProps(Tail(props), emailData)

OrElse(value, fallback) == IF value # <<>> THEN value ELSE fallback

(* the records of the brace groups that hold a subject or a sender *)
RECURSIVE ScanRecords(_)
ScanRecords(matches) ==
  IF matches = <<>> THEN <<>>
  ELSE LET match == Head(matches)
           props == Split(SubSeq(match, 2, Len(match) - 1), ",")
           emailData == ParseProps(props, <<>>)
           get(key) == Lookup(emailData, <<key>>, <<>>)
       IN IF get("subject") # <<>> \/ get("sender") # <<>>
          THEN <<EmailMessage(OrElse(get("subject"), NoSubject),
                              OrElse(get("sender"), UnknownSender),
                              OrElse(get("date"), DateNow),
                              OrElse(get("content"), ContentNotAvailable),
                              FALSE,
                              OrElse(get("mailbox"), UnknownMailbox))>>
               \o ScanRecords(Tail(matches))
          ELSE ScanRecords(Tail(matches))

RawRecord(asResult) ==
  EmailMessage(<<"Raw AppleScript Output">>, <<"Mail System">>, DateNow,
               <<"Could not parse Mail data properly. Raw output: ">> \o asResult,
               FALSE, <<"Debug">>)

Returned(records) == [returned |-> TRUE, records |-> records]

NotReturned == [returned |-> FALSE, records |-> <<>>]

(* rule (c) of getUnreadMails: the raw record, or on to the fallback *)
UnreadRawOrFallback(asResult) ==
  IF Includes(asResult, "subject") /\ Includes(asResult, "sender")
  THEN Returned(<<RawRecord(asResult)>>)
  ELSE NotReturned

(* getUnreadMails: what the function does with the text of the primary
   script; it returns records or goes on to the fallback *)
UnreadPrimaryParse(asResult) ==
  IF asResult # <<>> /\ Trim(asResult) # <<>>
  THEN LET json == JSONParse(asResult)
           looksJson == StartsWith(asResult, "{") \/ StartsWith(asResult, "[")
           scanned == ScanRecords(MatchGroups(asResult, 1))
       IN IF looksJson /\ ~json.ok
          THEN UnreadRawOrFallback(asResult)         \* JSON.parse threw
          ELSE IF looksJson /\ json.val.type = "array" /\ Len(json.val.items) > 0
               THEN Returned([i \in 1..Len(json.val.items) |->
                               MapUnreadRecord(json.val.items[i])])
               ELSE IF Len(scanned) > 0
                    THEN Returned(scanned)
                    ELSE UnreadRawOrFallback(asResult)
  ELSE UnreadRawOrFallback(asResult)

(* searchMails: what the function does with the text of the primary script *)
SearchPrimaryParse(asResult) ==
  IF asResult # <<>>
  THEN LET json == JSONParse(asResult) IN
       IF json.ok /\ json.val.type = "array" /\ Len(json.val.items) > 0
       THEN Returned([i \in 1..Len(json.val.items) |->
                       MapSearchRecord(json.val.items[i])])
       ELSE NotReturned
  ELSE NotReturned

-----------------------------------------------------------------------------
(* What runAppleScript may resolve with (the interpreter's output, trimmed;
   lead is a blank before it, which no output has): an optional opening bracket, up to MaxGroups brace groups of
   key:value pairs in JSON or in AppleScript record notation, an optional
   closing bracket and an optional tail *)

Quoted ==
  ("subject" :> "\"subject\"") @@ ("sender" :> "\"sender\"") @@
  ("mailbox" :> "\"mailbox\"") @@ ("boxName" :> "\"boxName\"") @@
  ("v1" :> "\"v1\"") @@ ("v2" :> "\"v2\"") @@ ("v3" :> "\"v3\"")

GroupKeys ==
  ("S" :> <<"subject">>) @@ ("N" :> <<"sender">>) @@
  ("SN" :> <<"subject", "sender">>) @@ ("M" :> <<"mailbox">>) @@
  ("SB" :> <<"subject", "boxName">>)

GroupKinds == DOMAIN GroupKeys

GroupValue == <<"v1", "v2", "v3">>

Word(style, w) == IF style = "json" THEN Quoted[w] ELSE w

Comma(style) == IF style = "json" THEN <<",">> ELSE <<",", " ">>

RECURSIVE RenderPairs(_, _, _)
RenderPairs(style, keys, i) ==
  IF keys = <<>> THEN <<>>
  ELSE <<Word(style, Head(keys)), ":", Word(style, GroupValue[i])>>
       \o (IF Len(keys) > 1 THEN Comma(style) ELSE <<>>)
       \o RenderPairs(style, Tail(keys), i)

RenderGroup(style, kind, i) ==
  <<"{">> \o RenderPairs(style, GroupKeys[kind], i) \o <<"}">>

RECURSIVE RenderGroups(_, _, _)
RenderGroups(style, groups, i) ==
  IF i > Len(groups) THEN <<>>
  ELSE RenderGroup(style, groups[i], i)
       \o (IF i < Len(groups) THEN Comma(style) ELSE <<>>)
       \o RenderGroups(style, groups, i + 1)

RenderTail(tail) ==
  CASE tail = "fields" -> <<"subject", " ", "sender">>
    [] tail = "junk" -> <<"x">>
    [] tail = "success" -> <<"success">>
    [] OTHER -> <<>>

Render(d) ==
  (IF d.lead THEN <<" ">> ELSE <<>>)
  \o (IF d.open THEN <<"[">> ELSE <<>>)
  \o RenderGroups(d.style, d.groups, 1)
  \o (IF d.close THEN <<"]">> ELSE <<>>)
  \o RenderTail(d.tail)

GroupSeqs == UNION {[1..n -> GroupKinds] : n \in 0..MaxGroups}

Output(style, lead, open, close, groups, tail) ==
  [style |-> style, lead |-> lead, open |-> open, close |-> close,
   groups |-> groups, tail |-> tail, threw |-> FALSE]

(* the interpreter failing: runAppleScript rejects *)
Threw ==
  [style |-> "none", lead |-> FALSE, open |-> FALSE, close |-> FALSE,
   groups |-> <<>>, tail |-> "", threw |-> TRUE]

NoOutput == Output("none", FALSE, FALSE, FALSE, <<>>, "")

AllOutputs ==
  {Output(style, lead, open, close, groups, tail) :
     style \in {"json", "record"}, lead \in {FALSE}, open \in BOOLEAN,
     close \in BOOLEAN, groups \in GroupSeqs, tail \in {"", "fields", "junk"}}

(* a well-formed JSON array of records *)
IsJsonArrayOutput(d) ==
  /\ ~d.threw /\ d.style = "json" /\ d.open /\ d.close /\ d.tail = ""
  /\ Len(d.groups) >= 1

-----------------------------------------------------------------------------
(* The mail operations (mail module) *)

Procs == {"p1", "p2"}

Pending == [kind |-> "pending", records |-> <<>>, text |-> <<>>, error |-> NoError]

(* a resolved promise carrying records *)
Success(records) ==
  [kind |-> "success", records |-> records, text |-> <<>>, error |-> NoError]

(* a resolved promise carrying a confirmation string *)
Confirmed(text) ==
  [kind |-> "success", records |-> <<>>, text |-> text, error |-> NoError]

(* a promise resolved with undefined *)
Undefined ==
  [kind |-> "undefined", records |-> <<>>, text |-> <<>>, error |-> NoError]

(* a rejected promise *)
Failure(error) ==
  [kind |-> "failure", records |-> <<>>, text |-> <<>>, error |-> error]

(* new Error(`${prefix}${error.message}`) of the outer catch blocks *)
Wrap(prefix, error) == Error(<<prefix>> \o error.message)

RateLimitExceeded == Error(<<"Rate limit exceeded. Please try again later.">>)

ScriptError == Error(<<"osascript: execution error">>)

(* the two limiter checks of an operation of the given class: the class
   limiter at time t1, then, only if it allowed, the global limiter at t2;
   checked lists the checks made and what each returned *)
Verdict(limiter, allowed) == [limiter |-> limiter, allowed |-> allowed]

MutGateNoShortCircuit(class, enabled, lim, t1, t2) ==
  IF ~enabled
  THEN [denied |-> FALSE, limits |-> lim, at |-> t1, checked |-> <<>>]
  ELSE LET c == RateLimiterCheck(lim[class], "global", t1, maxRequests(class))
           g == RateLimiterCheck(lim["global"], "global", t2, maxRequests("global"))
       IN [denied |-> ~c.allowed \/ ~g.allowed,
           limits |-> [lim EXCEPT ![class] = c.limits, !["global"] = g.limits],
           at |-> t2,
           checked |-> <<Verdict(class, c.allowed), Verdict("global", g.allowed)>>]

MutGateGlobalFirst(class, enabled, lim, t1, t2) ==
  IF ~enabled
  THEN [denied |-> FALSE, limits |-> lim, at |-> t1, checked |-> <<>>]
  ELSE LET g == RateLimiterCheck(lim["global"], "global", t1, maxRequests("global"))
           lim1 == [lim EXCEPT !["global"] = g.limits]
       IN IF ~g.allowed
          THEN [denied |-> TRUE, limits |-> lim1, at |-> t1,
                checked |-> <<Verdict("global", FALSE)>>]
          ELSE LET c == RateLimiterCheck(lim1[class], "global", t2,
                                         maxRequests(class))
               IN [denied |-> ~c.allowed,
                   limits |-> [lim1 EXCEPT ![class] = c.limits],
                   at |-> t2,
                   checked |-> <<Verdict("global", TRUE),
                                 Verdict(class, c.allowed)>>]

MutGateIgnoresDenial(class, enabled, lim, t1, t2) ==
  IF ~enabled
  THEN [denied |-> FALSE, limits |-> lim, at |-> t1, checked |-> <<>>]
  ELSE LET c == RateLimiterCheck(lim[class], "global", t1, maxRequests(class))
           lim1 == [lim EXCEPT ![class] = c.limits]
       IN IF ~c.allowed
          THEN [denied |-> FALSE, limits |-> lim1, at |-> t1,
                checked |-> <<Verdict(class, FALSE)>>]
          ELSE LET g == RateLimiterCheck(lim1["global"], "global", t2,
                                         maxRequests("global"))
               IN [denied |-> FALSE,
                   limits |-> [lim1 EXCEPT !["global"] = g.limits],
                   at |-> t2,
                   checked |-> <<Verdict(class, TRUE),
                                 Verdict("global", g.allowed)>>]

RateLimitGate(class, enabled, lim, t1, t2) ==
  IF ~enabled
  THEN [denied |-> FALSE, limits |-> lim, at |-> t1, checked |-> <<>>]
  ELSE LET c == RateLimiterCheck(lim[class], "global", t1, maxRequests(class))
           lim1 == [lim EXCEPT ![class] = c.limits]
       IN IF ~c.allowed
          THEN [denied |-> TRUE, limits |-> lim1, at |-> t1,
                checked |-> <<Verdict(class, FALSE)>>]
          ELSE LET g == RateLimiterCheck(lim1["global"], "global", t2,
                                         maxRequests("global"))
               IN [denied |-> ~g.allowed,
                   limits |-> [lim1 EXCEPT !["global"] = g.limits],
                   at |-> t2,
                   checked |-> <<Verdict(class, TRUE),
                                 Verdict("global", g.allowed)>>]

(* checkMailAccess, given how each of its scripts ends: whether Mail is
   reported running, and whether the activation, the mailbox count and the
   version query succeed *)
CannotAccess(reason) ==
  Error(<<"Cannot access Mail app. Please make sure Mail is running and properly configured. Error: ">>
        \o reason)

checkMailAccess(o) ==
  IF o.running = "throw"
  THEN [ok |-> FALSE, error |-> CannotAccess(ScriptError.message)]
  ELSE IF o.running # "true" /\ ~o.activate
       THEN [ok |-> FALSE,
             error |-> CannotAccess(
               <<"Could not activate Mail app. Please start it manually.">>)]
       ELSE IF o.count \/ o.version
            THEN [ok |-> TRUE, error |-> NoError]
            ELSE [ok |-> FALSE,
                  error |-> CannotAccess(
                    <<"Mail app is running but cannot access mailboxes. Please check permissions and configuration.">>)]

AccessOutcomes ==
  [running : {"true", "false", "throw"}, activate : BOOLEAN,
   count : BOOLEAN, version : BOOLEAN]

(* the local variables of one running operation; stage is where it ended,
   checked the limiters it consulted, in order, primary what the primary
   script printed, secondary how the fallback path went *)
NoOp ==
  [name |-> "none", searchTerm |-> <<>>, limit |-> NaN,
   to |-> <<>>, subject |-> <<>>, body |-> <<>>, cc |-> <<>>, bcc |-> <<>>,
   stage |-> "", checked |-> <<>>, primary |-> NoOutput, secondary |-> ""]

ErrorPrefix(name) ==
  CASE name = "getUnreadMails" -> "Error accessing mail: "
    [] name = "searchMails" -> "Error searching mail: "
    [] name = "sendMail" -> "Error sending mail: "

(* the synchronous head of an operation: what it leaves behind *)
Rejected(stage, error, lim, at, checked) ==
  [pc |-> "done", stage |-> stage, result |-> Failure(error), limits |-> lim,
   at |-> at, checked |-> checked]

Admitted(gate) ==
  [pc |-> "access", stage |-> "", result |-> Pending, limits |-> gate.limits,
   at |-> gate.at, checked |-> gate.checked]

(* searchMails up to its first await: validation, limit, rate check *)
MutSearchRateCheckFirst(searchTerm, limit, cfg, lim, t1, t2) ==
  LET v == validateSearchQuery(searchTerm)
      gate == RateLimitGate("search", cfg.enableRateLimiting, lim, t1, t2)
  IN IF gate.denied
     THEN Rejected("rate", Wrap(ErrorPrefix("searchMails"), RateLimitExceeded),
                   gate.limits, gate.at, gate.checked)
     ELSE IF ~v.ok
          THEN Rejected("validation", Wrap(ErrorPrefix("searchMails"), v.error),
                        gate.limits, gate.at, gate.checked)
          ELSE Admitted(gate)

SearchMailsEntry(searchTerm, limit, cfg, lim, t1, t2) ==
  LET v == validateSearchQuery(searchTerm)
      gate == RateLimitGate("search", cfg.enableRateLimiting, lim, t1, t2)
  IN IF ~v.ok
     THEN Rejected("validation", Wrap(ErrorPrefix("searchMails"), v.error),
                   lim, t1, <<>>)
     ELSE IF gate.denied
          THEN Rejected("rate", Wrap(ErrorPrefix("searchMails"), RateLimitExceeded),
                        gate.limits, gate.at, gate.checked)
          ELSE Admitted(gate)

(* the first validation of the list that failed, or the last one *)
RECURSIVE FirstInvalid(_)
FirstInvalid(vs) ==
  IF Len(vs) = 1 \/ ~Head(vs).ok THEN Head(vs) ELSE FirstInvalid(Tail(vs))

(* cc ? validateEmail(cc) : undefined *)
validateOptionalEmail(email) ==
  IF email # <<>> THEN validateEmail(email) ELSE Valid(<<>>)

SendMailValidation(to, subject, body, cc, bcc) ==
  FirstInvalid(<<validateEmail(to), validateMessageContent(subject),
                 validateMessageContent(body), validateOptionalEmail(cc),
                 validateOptionalEmail(bcc)>>)

(* sendMail up to its first await: validation, rate check *)
SendMailEntry(to, subject, body, cc, bcc, cfg, lim, t1, t2) ==
  LET v == SendMailValidation(to, subject, body, cc, bcc)
      gate == RateLimitGate("emails", cfg.enableRateLimiting, lim, t1, t2)
  IN IF ~v.ok
     THEN Rejected("validation", Wrap(ErrorPrefix("sendMail"), v.error),
                   lim, t1, <<>>)
     ELSE IF gate.denied
          THEN Rejected("rate", Wrap(ErrorPrefix("sendMail"), RateLimitExceeded),
                        gate.limits, gate.at, gate.checked)
          ELSE Admitted(gate)

(* the records the object-automation function collects from one mailbox
   holding n matching messages *)
JxaRecords(n, limit) ==
  [i \in 1..(IF Min(n, limit) > 0 THEN Min(n, limit) ELSE 0) |->
     EmailMessage(<<GroupValue[i]>>, <<"jxa sender">>, <<"jxa date">>,
                  <<"jxa content">>, FALSE, <<"jxa mailbox">>)]

JxaError == Error(<<"JXA: Application can't be found.">>)

-----------------------------------------------------------------------------
(* no helper has been called *)
NoCall == [fn |-> "none"]

(* Initial state: the module-level singletons after construction *)

EmptyMap == [k \in {} |-> [count |-> 0, resetAt |-> 0]]

Configs ==
  [enableRateLimiting : BOOLEAN, enableAuditLogging : BOOLEAN,
   maxSearchResults : {MaxSearchResults}]

InitProgram ==
  /\ now = 0
  /\ config \in Configs
  /\ limits = [l \in Limiters |-> EmptyMap]
  /\ hist = [l \in Limiters |-> [k \in Keys |-> NoWindow]]
  /\ lastCheck = NoCheck
  /\ auditLog = <<>>
  /\ pc = [p \in Procs |-> "idle"]
  /\ op = [p \in Procs |-> NoOp]
  /\ calls = [p \in Procs |-> <<>>]
  /\ result = [p \in Procs |-> Pending]

Init == InitProgram /\ call = NoCall

opVars == <<pc, op, calls, result>>

limiterVars == <<limits, hist, lastCheck>>

-----------------------------------------------------------------------------
(* The clock and the limiter used directly *)

Tick ==
  /\ now < MaxTime
  /\ now' = now + 1
  /\ UNCHANGED <<config, call, limiterVars, auditLog, opVars>>

(* limiter.check(key) *)
Check(l, key) ==
  LET c == RateLimiterCheck(limits[l], key, now, maxRequests(l)) IN
  /\ limits' = [limits EXCEPT ![l] = c.limits]
  /\ hist' = [hist EXCEPT ![l][key] = HistAfter(@, now, maxRequests(l))]
  /\ lastCheck' = [limiter |-> l, key |-> key, at |-> now, allowed |-> c.allowed]
  /\ UNCHANGED <<now, config, call, auditLog, opVars>>

(* limiter.reset(key) *)
Reset(l, key) ==
  /\ key \in DOMAIN limits[l]
  /\ limits' = [limits EXCEPT ![l] = RateLimiterReset(@, key)]
  /\ hist' = [hist EXCEPT ![l][key] = NoWindow]
  /\ lastCheck' = NoCheck
  /\ UNCHANGED <<now, config, call, auditLog, opVars>>

-----------------------------------------------------------------------------
(* The operations, one action per stretch between two awaits *)

(* the entry of an operation applied to the state *)
Enter(p, entry, started) ==
  /\ now' = entry.at
  /\ limits' = entry.limits
  /\ pc' = [pc EXCEPT ![p] = entry.pc]
  /\ op' = [op EXCEPT ![p] = [started EXCEPT !.stage = entry.stage,
                                             !.checked = entry.checked]]
  /\ result' = [result EXCEPT ![p] = entry.result]
  /\ UNCHANGED <<config, call, hist, lastCheck, auditLog, calls>>

SearchMailsBegin(p, searchTerm, limit, dt) ==
  /\ pc[p] = "idle"
  /\ now + dt <= MaxTime
  /\ Enter(p,
           SearchMailsEntry(searchTerm, limit, config, limits, now, now + dt),
           [NoOp EXCEPT !.name = "searchMails", !.searchTerm = searchTerm,
                        !.limit = limit])

SendMailBegin(p, to, subject, body, cc, bcc, dt) ==
  /\ pc[p] = "idle"
  /\ now + dt <= MaxTime
  /\ Len(auditLog) < MaxLog
  /\ Enter(p,
           SendMailEntry(to, subject, body, cc, bcc, config, limits, now, now + dt),
           [NoOp EXCEPT !.name = "sendMail", !.to = to, !.subject = subject,
                        !.body = body, !.cc = cc, !.bcc = bcc])

GetUnreadMailsBegin(p, limit) ==
  /\ pc[p] = "idle"
  /\ pc' = [pc EXCEPT ![p] = "access"]
  /\ op' = [op EXCEPT ![p] = [NoOp EXCEPT !.name = "getUnreadMails",
                                          !.limit = Num(limit)]]
  /\ UNCHANGED <<now, config, call, limiterVars, auditLog, calls, result>>

(* the operation ends: its promise settles *)
Settle(p, stage, res) ==
  /\ pc' = [pc EXCEPT ![p] = "done"]
  /\ op' = [op EXCEPT ![p].stage = stage]
  /\ result' = [result EXCEPT ![p] = res]

(* the operation ends in its fallback path *)
SettleSecondary(p, went, res) ==
  /\ pc' = [pc EXCEPT ![p] = "done"]
  /\ op' = [op EXCEPT ![p].stage = "secondary", ![p].secondary = went]
  /\ result' = [result EXCEPT ![p] = res]

(* the operation goes on to its next await *)
Goto(p, next) ==
  /\ pc' = [pc EXCEPT ![p] = next]
  /\ UNCHANGED <<op, result>>

(* await checkMailAccess() *)
MailAccess(p, o) ==
  /\ pc[p] = "access"
  /\ calls' = [calls EXCEPT ![p] = Append(@, "checkMailAccess")]
  /\ IF checkMailAccess(o).ok
     THEN Goto(p, IF op[p].name = "getUnreadMails" THEN "primary" ELSE "ensure")
     ELSE Settle(p, "access",
                 Failure(Wrap(ErrorPrefix(op[p].name), checkMailAccess(o).error)))
  /\ UNCHANGED <<now, config, call, limiterVars, auditLog>>

(* await runAppleScript(activate Mail if it is not running) *)
EnsureRunning(p, ok) ==
  /\ pc[p] = "ensure"
  /\ calls' = [calls EXCEPT ![p] = Append(@, "ensureRunning")]
  /\ IF ok
     THEN Goto(p, "primary")
     ELSE Settle(p, "ensure", Failure(Wrap(ErrorPrefix(op[p].name), ScriptError)))
  /\ UNCHANGED <<now, config, call, limiterVars, auditLog>>

(* what follows the primary script of getUnreadMails *)
UnreadAfterPrimary(d) ==
  IF d.threw THEN [pc |-> "secondary", result |-> Pending]
  ELSE IF UnreadPrimaryParse(Render(d)).returned
       THEN [pc |-> "done", result |-> Success(UnreadPrimaryParse(Render(d)).records)]
       ELSE [pc |-> "secondary", result |-> Pending]

(* what follows the primary script of searchMails *)
SearchAfterPrimary(d) ==
  IF d.threw THEN [pc |-> "secondary", result |-> Pending]
  ELSE IF SearchPrimaryParse(Render(d)).returned
       THEN [pc |-> "done", result |-> Success(SearchPrimaryParse(Render(d)).records)]
       ELSE [pc |-> "secondary", result |-> Pending]

SentText(to, subject) ==
  <<"Email sent to ">> \o to \o <<" with subject \"">> \o subject \o <<"\"">>

(* what follows the primary script of sendMail: the confirmation, the
   fallback after a throw, or the end of the function body *)
SendAfterPrimary(d, to, subject) ==
  IF d.threw THEN [pc |-> "secondary", result |-> Pending]
  ELSE IF Render(d) = <<"success">>
       THEN [pc |-> "done", result |-> Confirmed(SentText(to, subject))]
       ELSE [pc |-> "done", result |-> Undefined]

(* String.prototype.substring(0, n) *)
Prefix(s, n) == SubSeq(s, 1, Min(n, Len(s)))

MutLogReplacesLog(logs, entry, t) == <<[entry EXCEPT !.timestamp = t]>>

(* auditLogger.log *)
AuditLoggerLog(logs, entry, t) == Append(logs, [entry EXCEPT !.timestamp = t])

SendMailAuditEntry(to, subject, cc, bcc) ==
  [timestamp |-> 0, operation |-> "sendMail",
   details |-> [to |-> to, subject |-> Prefix(subject, SubjectPreview),
                cc |-> cc, bcc |-> bcc],
   success |-> TRUE, error |-> <<>>]

(* await runAppleScript(script), and the code up to the next await *)
Primary(p, d) ==
  /\ pc[p] = "primary"
  /\ calls' = [calls EXCEPT ![p] = Append(@, "primary")]
  /\ LET after == CASE op[p].name = "getUnreadMails" -> UnreadAfterPrimary(d)
                    [] op[p].name = "searchMails" -> SearchAfterPrimary(d)
                    [] op[p].name = "sendMail" ->
                         SendAfterPrimary(d, op[p].to, op[p].subject)
     IN /\ pc' = [pc EXCEPT ![p] = after.pc]
        /\ op' = [op EXCEPT ![p].primary = d,
                            ![p].stage = IF after.pc = "done" THEN "primary" ELSE ""]
        /\ result' = [result EXCEPT ![p] = after.result]
        /\ auditLog' =
             IF /\ op[p].name = "sendMail"
                /\ after.result.kind = "success"
                /\ config.enableAuditLogging
             THEN AuditLoggerLog(auditLog,
                    SendMailAuditEntry(op[p].to, op[p].subject, op[p].cc, op[p].bcc),
                    now)
             ELSE auditLog
  /\ UNCHANGED <<now, config, call, limiterVars>>

UnreadPrimary(p, d) == op[p].name = "getUnreadMails" /\ Primary(p, d)

SearchPrimary(p, d) == op[p].name = "searchMails" /\ Primary(p, d)

SendPrimary(p, d) == op[p].name = "sendMail" /\ Primary(p, d)

(* getUnreadMails after the primary path: the two informational scripts,
   then the object-automation call *)
UnreadSecondary(p, accountsOk, unreadInfoOk, jxa) ==
  /\ pc[p] = "secondary" /\ op[p].name = "getUnreadMails"
  /\ calls' = [calls EXCEPT ![p] =
                 @ \o <<"accounts">>
                   \o (IF accountsOk THEN <<"unreadInfo">> ELSE <<>>)
                   \o (IF accountsOk /\ unreadInfoOk THEN <<"secondary">> ELSE <<>>)]
  /\ IF ~accountsOk \/ ~unreadInfoOk
     THEN SettleSecondary(p, "failed",
                 Failure(Wrap(ErrorPrefix("getUnreadMails"), ScriptError)))
     ELSE IF jxa.threw
          THEN SettleSecondary(p, "failed",
                      Failure(Wrap(ErrorPrefix("getUnreadMails"), JxaError)))
          ELSE IF jxa.inner
               THEN SettleSecondary(p, "swallowed", Success(<<>>))
               ELSE SettleSecondary(p, "succeeded",
                           Success(JxaRecords(jxa.n, op[p].limit.twice \div 2)))
  /\ UNCHANGED <<now, config, call, limiterVars, auditLog>>

(* searchMails after the primary path: the object-automation call *)
SearchSecondary(p, jxa) ==
  /\ pc[p] = "secondary" /\ op[p].name = "searchMails"
  /\ calls' = [calls EXCEPT ![p] = Append(@, "secondary")]
  /\ IF jxa.threw
     THEN SettleSecondary(p, "failed",
                 Failure(Wrap(ErrorPrefix("searchMails"), JxaError)))
     ELSE IF jxa.inner
          THEN SettleSecondary(p, "swallowed", Success(<<>>))
          ELSE SettleSecondary(p, "succeeded",
                      Success(JxaRecords(jxa.n,
                                sanitizeLimit(op[p].limit, config.maxSearchResults))))
  /\ UNCHANGED <<now, config, call, limiterVars, auditLog>>

(* sendMail in its catch block: the object-automation call *)
SendSecondary(p, jxa) ==
  /\ pc[p] = "secondary" /\ op[p].name = "sendMail"
  /\ calls' = [calls EXCEPT ![p] = Append(@, "secondary")]
  /\ CASE jxa = "completed" ->
            SettleSecondary(p, "succeeded",
                            Confirmed(SentText(op[p].to, op[p].subject)))
       [] jxa = "error" ->
            SettleSecondary(p, "failed",
                   Failure(Wrap(ErrorPrefix("sendMail"),
                                Error(<<"JXA error: ", "Error: send failed">>))))
       [] jxa = "throw" ->
            SettleSecondary(p, "failed",
                   Failure(Wrap(ErrorPrefix("sendMail"), JxaError)))
  /\ UNCHANGED <<now, config, call, limiterVars, auditLog>>

(* the caller has its answer; the slot is free for the next call *)
Return(p) ==
  /\ pc[p] = "done"
  /\ pc' = [pc EXCEPT ![p] = "idle"]
  /\ op' = [op EXCEPT ![p] = NoOp]
  /\ calls' = [calls EXCEPT ![p] = <<>>]
  /\ result' = [result EXCEPT ![p] = Pending]
  /\ UNCHANGED <<now, config, call, limiterVars, auditLog>>

-----------------------------------------------------------------------------
(* The inputs of the callers and the answers of the outside world *)

SearchTerms == {<<"a">>, <<" ", "a">>, <<>>, <<"eval">>}

SearchLimits == {Num(1), NaN}

Recipients == {<<"bob", "@", "x.org">>, <<"bob">>}

Subjects == {<<"a">>, <<"exec">>}

CcList == {<<>>, <<"al">>}

UnreadLimits == {1, 10}

(* a few of the outputs: a JSON array, record notation without and with
   the bracket, nothing at all, and a throw *)
SomeOutputs ==
  {Output("json", FALSE, TRUE, TRUE, <<"S">>, ""),
   Output("record", FALSE, FALSE, FALSE, <<"SN">>, ""),
   NoOutput,
   Threw}

SendOutputs ==
  {Output("none", FALSE, FALSE, FALSE, <<>>, "success"),
   Output("none", FALSE, FALSE, FALSE, <<>>, "junk"),
   Threw}

(* what the object-automation call does: run() rejects (threw), or the
   function body's own try blocks catch an error of Mail.accounts() or
   Mail.mailboxes() and it returns what it has collected, nothing (inner),
   or it finds n messages *)
JxaOutcomes ==
  {[threw |-> TRUE, inner |-> FALSE, n |-> 0], [threw |-> FALSE, inner |-> TRUE, n |-> 0]}
    \cup [threw : {FALSE}, inner : {FALSE}, n : 0..MaxFound]

SomeJxaOutcomes == {jxa \in JxaOutcomes : jxa.threw \/ jxa.inner \/ jxa.n = 1}

Callers == {"p1"}

(* The operations, one caller at a time, against the shared limiters *)
Next ==
  \/ Tick
  \/ \E p \in Callers, t \in SearchTerms, n \in SearchLimits, dt \in 0..1 :
       SearchMailsBegin(p, t, n, dt)
  \/ \E p \in Callers, to \in Recipients, subject \in Subjects, cc \in CcList,
        dt \in 0..1 :
       SendMailBegin(p, to, subject, <<"a">>, cc, <<>>, dt)
  \/ \E p \in Callers, n \in UnreadLimits : GetUnreadMailsBegin(p, n)
  \/ \E p \in Callers, o \in AccessOutcomes : MailAccess(p, o)
  \/ \E p \in Callers, ok \in BOOLEAN : EnsureRunning(p, ok)
  \/ \E p \in Callers, d \in SomeOutputs : UnreadPrimary(p, d)
  \/ \E p \in Callers, d \in SomeOutputs : SearchPrimary(p, d)
  \/ \E p \in Callers, d \in SendOutputs : SendPrimary(p, d)
  \/ \E p \in Callers, a \in BOOLEAN, u \in BOOLEAN, jxa \in SomeJxaOutcomes :
       UnreadSecondary(p, a, u, jxa)
  \/ \E p \in Callers, jxa \in SomeJxaOutcomes : SearchSecondary(p, jxa)
  \/ \E p \in Callers, jxa \in {"completed", "error", "throw"} :
       SendSecondary(p, jxa)
  \/ \E p \in Callers : Return(p)

Spec == Init /\ [][Next]_vars

(* A limiter used directly, under every order of checks, resets and ticks *)
DirectUses == {<<"search", "global">>, <<"search", "other">>}

NextLimiter ==
  \/ Tick
  \/ \E u \in DirectUses : Check(u[1], u[2])
  \/ \E u \in DirectUses : Reset(u[1], u[2])

SpecLimiter == Init /\ [][NextLimiter]_vars

(* The two reading operations against every output of the interpreter *)
(* every output the primary script of caller p may give, when p is at it *)
PrimaryOutputs == AllOutputs \cup {Threw}

OutputsAt(p) == IF pc[p] = "primary" THEN PrimaryOutputs ELSE {}

InitParse == Init /\ ~config.enableRateLimiting /\ config.enableAuditLogging

NextParse ==
  \/ \E p \in Callers, n \in SearchLimits :
       SearchMailsBegin(p, <<"a">>, n, 0)
  \/ \E p \in Callers, n \in UnreadLimits : GetUnreadMailsBegin(p, n)
  \/ \E p \in Callers, o \in AccessOutcomes : MailAccess(p, o)
  \/ \E p \in Callers, ok \in BOOLEAN : EnsureRunning(p, ok)
  \/ \E p \in Callers : \E d \in OutputsAt(p) : UnreadPrimary(p, d)
  \/ \E p \in Callers : \E d \in OutputsAt(p) : SearchPrimary(p, d)
  \/ \E p \in Callers, a \in BOOLEAN, u \in BOOLEAN, jxa \in JxaOutcomes :
       UnreadSecondary(p, a, u, jxa)
  \/ \E p \in Callers, jxa \in JxaOutcomes : SearchSecondary(p, jxa)
  \/ \E p \in Callers : Return(p)

SpecParse == InitParse /\ [][NextParse]_vars

-----------------------------------------------------------------------------
(* Claims about RateLimiter.check, under SpecLimiter *)

LastEntry == limits[lastCheck.limiter][lastCheck.key]

LastWindow == hist[lastCheck.limiter][lastCheck.key]

(* C1: for a key with no entry and maxRequests >= 1, the first maxRequests
   calls of check made within one window return true and the next one
   returns false; the first call of a window (the first use of the key, or
   the first call at or after windowResetAt) returns true and leaves
   count = 1 and windowResetAt = now + windowMs. *)
C1_WindowAdmitsMaxRequests ==
  lastCheck.limiter # "none" =>
    /\ lastCheck.key \in DOMAIN limits[lastCheck.limiter]
    /\ LastEntry.resetAt = LastWindow.start + WindowMs
    /\ LastWindow.n <= maxRequests(lastCheck.limiter) => lastCheck.allowed
    /\ LastWindow.n = maxRequests(lastCheck.limiter) + 1 => ~lastCheck.allowed
    /\ LastWindow.n = 1 =>
         LastEntry = [count |-> 1, resetAt |-> lastCheck.at + WindowMs]

(* a window that followed an exhausted one has just admitted its first call *)
C1_Witness ==
  /\ lastCheck.limiter = "search"
  /\ lastCheck.allowed
  /\ LastWindow.n = 1
  /\ LastWindow.rolled
  /\ \E k \in Keys : hist["search"][k].n = MaxSearch + 1

(* C5: a call of check that returns false leaves the whole key table of the
   limiter as it was: the key's count and windowResetAt, and every other
   key's entry. *)
C5_DeniedCheckChangesNothing ==
  [][(<<hist, lastCheck>>' # <<hist, lastCheck>> /\ ~lastCheck'.allowed)
       => limits' = limits]_vars

(* a denied check on a limiter that holds an entry for another key too *)
C5_Witness ==
  /\ ~lastCheck.allowed
  /\ lastCheck.limiter = "search"
  /\ DOMAIN limits["search"] = Keys
  /\ LastWindow.n = MaxSearch + 1

-----------------------------------------------------------------------------
(* Claims about the head of searchMails and sendMail, under Spec *)

RateLimited == {"searchMails", "sendMail"}

ClassOf(name) == IF name = "searchMails" THEN "search" ELSE "emails"

(* a limiter check made for the operation returned false *)
DeniedByLimiter(o) == \E i \in DOMAIN o.checked : ~o.checked[i].allowed

(* the operation's input is one its validators reject *)
InputRejected(o) ==
  \/ o.name = "searchMails" /\ ~validateSearchQuery(o.searchTerm).ok
  \/ o.name = "sendMail"
       /\ ~SendMailValidation(o.to, o.subject, o.body, o.cc, o.bcc).ok

(* the validator's own error for the operation's input *)
InputError(o) ==
  IF o.name = "searchMails"
  THEN validateSearchQuery(o.searchTerm).error
  ELSE SendMailValidation(o.to, o.subject, o.body, o.cc, o.bcc).error

(* the step in which caller p's call runs up to its first await or its end *)
Begins(p) == pc[p] = "idle" /\ pc'[p] # "idle" /\ op'[p].name \in RateLimited

(* C2: in searchMails and sendMail with rate limiting enabled, when the
   operation-class limiter or the global limiter denies, the operation ends
   with a rate-limit failure and no external automation call of any kind
   has been made for it. *)
C2_DenialEndsBeforeAnyCall ==
  \A p \in Procs :
    (op[p].name \in RateLimited /\ DeniedByLimiter(op[p])) =>
      /\ pc[p] = "done"
      /\ result[p] = Failure(Wrap(ErrorPrefix(op[p].name), RateLimitExceeded))
      /\ calls[p] = <<>>

(* sendMail denied by the global limiter after its class limiter allowed *)
C2_Witness ==
  \E p \in Procs :
    /\ pc[p] = "done"
    /\ op[p].name = "sendMail"
    /\ op[p].checked = <<Verdict("emails", TRUE), Verdict("global", FALSE)>>

(* C3: when searchMails or sendMail is rejected with a rate-limit failure,
   the count of every rate limiter and the audit log are as they were
   before the call, whichever limiter denied. *)
C3_DenialLeavesLimitersAndLog ==
  [][\A p \in Procs :
       (Begins(p) /\ DeniedByLimiter(op'[p]))
         => limits' = limits /\ auditLog' = auditLog]_vars

(* C4: the class limiter is checked first and the global limiter second,
   the operation goes on only if both allow, and when the class limiter
   denies, the global limiter's table is left as it was. *)
C4_ClassThenGlobal ==
  [][\A p \in Procs :
       (Begins(p) /\ config.enableRateLimiting /\ ~InputRejected(op'[p])) =>
         LET checked == op'[p].checked
             class == ClassOf(op'[p].name)
         IN /\ Len(checked) \in 1..2
            /\ checked[1].limiter = class
            /\ limits'[class] # limits[class] <=> checked[1].allowed
            /\ Len(checked) = 2 <=> checked[1].allowed
            /\ Len(checked) = 2 => checked[2].limiter = "global"
            /\ ~checked[1].allowed => limits'["global"] = limits["global"]
            /\ pc'[p] # "done" <=> \A i \in DOMAIN checked : checked[i].allowed]_vars

(* the class limiter has denied while the global limiter holds a window *)
C4_Witness ==
  \E p \in Procs :
    /\ pc[p] = "done"
    /\ op[p].name = "searchMails"
    /\ op[p].checked = <<Verdict("search", FALSE)>>
    /\ "global" \in DOMAIN limits["global"]
    /\ limits["global"]["global"].count < MaxGlobal

(* C6: in searchMails and sendMail, when an input fails validation the
   operation ends at once: no rate limiter is consulted or incremented, no
   external automation call is made and no audit entry is appended. *)
C6_InvalidInputTouchesNothing ==
  [][\A p \in Procs :
       (Begins(p) /\ InputRejected(op'[p])) =>
         /\ pc'[p] = "done"
         /\ result'[p].kind = "failure"
         /\ op'[p].checked = <<>>
         /\ limits' = limits
         /\ calls'[p] = <<>>
         /\ auditLog' = auditLog]_vars

(* a search with a forbidden pattern rejected while limiting is enabled *)
C6_Witness ==
  \E p \in Procs :
    /\ pc[p] = "done"
    /\ op[p].name = "searchMails"
    /\ op[p].searchTerm = <<"eval">>
    /\ config.enableRateLimiting
    /\ calls[p] = <<>>

(* C7: when a validator rejects an input of searchMails or sendMail, the
   failure that reaches the caller is the ValidationError itself: same
   class, same field, same message. *)
C7_ValidationErrorVerbatim ==
  \A p \in Procs :
    (pc[p] = "done" /\ InputRejected(op[p])) =>
      /\ result[p].kind = "failure"
      /\ result[p].error = InputError(op[p])

(* C8: in getUnreadMails, searchMails and sendMail an execution error of
   the primary attempt (a throw, or a result that is not the success
   result) never ends the operation: the secondary path is attempted next,
   and when the secondary succeeds the final result is success. *)
PrimaryExecutionError(o) ==
  \/ o.primary.threw
  \/ o.name = "sendMail" /\ Render(o.primary) # <<"success">>

SecondaryTried(p) ==
  \E i \in DOMAIN calls[p] : calls[p][i] \in {"accounts", "secondary"}

C8_PrimaryErrorFallsBack ==
  \A p \in Procs :
    ("primary" \in Range(calls[p]) /\ PrimaryExecutionError(op[p])) =>
      /\ pc[p] = "done" => SecondaryTried(p)
      /\ pc[p] # "done" => pc[p] = "secondary"
      /\ op[p].secondary = "succeeded" => result[p].kind = "success"

-----------------------------------------------------------------------------
(* Claims about the parsing of the primary output, under SpecParse *)

HasKey(kind, key) == \E i \in DOMAIN GroupKeys[kind] : GroupKeys[kind][i] = key

(* the value the i-th group of an output gives to key, or the placeholder *)
ValueOr(kind, i, key, placeholder) ==
  IF HasKey(kind, key) THEN <<GroupValue[i]>> ELSE placeholder

(* the record getUnreadMails is to build from the i-th group *)
ExpectedUnread(kind, i) ==
  EmailMessage(ValueOr(kind, i, "subject", NoSubject),
               ValueOr(kind, i, "sender", UnknownSender),
               DateNow, ContentNotAvailable, FALSE,
               ValueOr(kind, i, "mailbox", UnknownMailbox))

(* the record searchMails is to build from the i-th group *)
ExpectedSearch(kind, i) ==
  EmailMessage(ValueOr(kind, i, "subject", NoSubject),
               ValueOr(kind, i, "sender", UnknownSender),
               DateNow, ContentNotThroughAppleScript, FALSE,
               ValueOr(kind, i, "boxName", UnknownMailbox))

Expected(name, groups) ==
  [i \in 1..Len(groups) |->
     IF name = "getUnreadMails"
     THEN ExpectedUnread(groups[i], i)
     ELSE ExpectedSearch(groups[i], i)]

PrimaryRan(p) == "primary" \in Range(calls[p])

(* C9: in getUnreadMails and searchMails, when the primary attempt returns
   text that is a JSON array of n >= 1 records, the operation returns
   success with exactly n records, each mapped through the field defaults,
   in the same order, and the secondary path is never invoked. *)
C9_JsonArrayGivesItsRecords ==
  \A p \in Procs :
    (op[p].name \in {"getUnreadMails", "searchMails"} /\ PrimaryRan(p)
       /\ IsJsonArrayOutput(op[p].primary)) =>
      /\ pc[p] = "done"
      /\ result[p] = Success(Expected(op[p].name, op[p].primary.groups))
      /\ ~SecondaryTried(p)

(* getUnreadMails has returned two records, one without a sender and one
   without a subject *)
C9_Witness ==
  \E p \in Procs :
    /\ pc[p] = "done"
    /\ op[p].name = "getUnreadMails"
    /\ IsJsonArrayOutput(op[p].primary)
    /\ op[p].primary.groups = <<"S", "N">>
    /\ Len(result[p].records) = 2

(* an output in record notation whose groups each give a subject or a
   sender *)
IsRecordGroupsOutput(d) ==
  /\ ~d.threw /\ d.style = "record" /\ Len(d.groups) >= 1
  /\ \A i \in DOMAIN d.groups :
       HasKey(d.groups[i], "subject") \/ HasKey(d.groups[i], "sender")

(* C10: the cascade of getUnreadMails is tried in the order (a), (b), (c),
   (d), each rule whenever the earlier ones did not accept: for every
   primary output that rule (a) does not accept (text beginning with a
   brace that is not valid JSON included) and that holds k >= 1 brace groups
   each giving a subject or a sender, rule (b) accepts and the result is
   success with exactly k records, one per group. *)
C10_BraceGroupsGiveOneRecordEach ==
  \A p \in Procs :
    (op[p].name = "getUnreadMails" /\ PrimaryRan(p)
       /\ IsRecordGroupsOutput(op[p].primary)) =>
      /\ pc[p] = "done"
      /\ result[p] = Success(Expected("getUnreadMails", op[p].primary.groups))

-----------------------------------------------------------------------------
(* Claims about the outcome of the two paths, under Spec *)

(* the operation passed its validators and the rate limit check *)
PassedEntry(o) ==
  o.name # "none" /\ ~InputRejected(o) /\ ~DeniedByLimiter(o)

(* C11: for an operation that has passed validation and the rate check,
   the caller sees a failure only if the primary attempt was made and
   failed and the secondary attempt was made and failed; no failure is
   surfaced while the secondary path has not been tried. *)
C11_FailureOnlyAfterBothPaths ==
  \A p \in Procs :
    (pc[p] = "done" /\ PassedEntry(op[p]) /\ result[p].kind = "failure") =>
      /\ PrimaryRan(p)
      /\ SecondaryTried(p)
      /\ op[p].secondary = "failed"

(* the step in which caller p's operation reaches its terminal state *)
Ends(p) == pc[p] # "done" /\ pc'[p] = "done"

(* C12: with audit logging enabled, every execution of getUnreadMails,
   searchMails or sendMail that passes validation and the rate check and
   reaches a terminal state appends exactly one audit entry naming the
   operation, with success true when the primary or the secondary path
   succeeded and success false with the error text when both failed. *)
C12_TerminalStateIsAudited ==
  [][\A p \in Procs :
       (Ends(p) /\ config.enableAuditLogging /\ PassedEntry(op'[p])) =>
         /\ Len(auditLog') = Len(auditLog) + 1
         /\ LET entry == auditLog'[Len(auditLog')] IN
              /\ entry.operation = op'[p].name
              /\ entry.success <=> result'[p].kind = "success"
              /\ ~entry.success => entry.error = result'[p].error.message]_vars

(* the primary attempt was made and gave no result *)
PrimaryFailed(p) ==
  /\ PrimaryRan(p)
  /\ \/ op[p].primary.threw
     \/ op[p].name = "getUnreadMails"
          /\ ~UnreadPrimaryParse(Render(op[p].primary)).returned
     \/ op[p].name = "searchMails"
          /\ ~SearchPrimaryParse(Render(op[p].primary)).returned

(* the error the secondary path ended with: a rejected script or run()
   call, or the error text the object-automation function returned *)
SecondaryErrors ==
  {ScriptError, JxaError, Error(<<"JXA error: ", "Error: send failed">>)}

(* C13: when the primary attempt fails and the secondary automation call
   then fails too, the operation ends in failure, never in a success or an
   empty result, and the failure surfaced to the caller carries the
   secondary's error text. *)
C13_BothFailedIsFailure ==
  \A p \in Procs :
    (pc[p] = "done" /\ PrimaryFailed(p)
       /\ op[p].secondary \in {"failed", "swallowed"}) =>
      /\ result[p].kind = "failure"
      /\ \E e \in SecondaryErrors :
           result[p].error = Wrap(ErrorPrefix(op[p].name), e)

(* the text t holds the text part as a contiguous stretch *)
ContainsText(t, part) ==
  \E i \in 0..(Len(t) - Len(part)) : SubSeq(t, i + 1, i + Len(part)) = part

(* the primary script returned text that no rule of the cascade accepted *)
ParseFailure(p) ==
  PrimaryFailed(p) /\ ~op[p].primary.threw /\ Render(op[p].primary) # <<>>

(* C14: when no cascade rule could interpret the primary output and the
   secondary path then fails too, the final error surfaced to the caller
   contains the primary's raw text. *)
C14_RawTextKeptInFinalError ==
  \A p \in Procs :
    (pc[p] = "done" /\ op[p].name \in {"getUnreadMails", "searchMails"}
       /\ ParseFailure(p) /\ op[p].secondary = "failed") =>
      /\ result[p].kind = "failure"
      /\ ContainsText(result[p].error.message, Render(op[p].primary))

-----------------------------------------------------------------------------
(* Claims about the size of the result lists, under SpecParse *)

(* the limit the caller asked for, after clamping *)
RequestedLimit(o) ==
  IF o.name = "searchMails"
  THEN sanitizeLimit(o.limit, config.maxSearchResults)
  ELSE o.limit.twice \div 2

(* C15: every result list returned by getUnreadMails and searchMails has
   at most limit records, whichever path produced it and whatever number
   of records the external interpreter returned. *)
C15_ResultWithinLimit ==
  \A p \in Procs :
    (pc[p] = "done" /\ op[p].name \in {"getUnreadMails", "searchMails"}
       /\ result[p].kind = "success") =>
      Len(result[p].records) <= RequestedLimit(op[p])

-----------------------------------------------------------------------------
(* The pure helpers, called with arguments drawn from bounded sets *)

pureVars == <<now, config, limiterVars, auditLog, opVars>>

(* numbers in steps of one half, and NaN *)
LimitArgs == {[nan |-> FALSE, twice |-> t] : t \in (-2 * LimitSpan)..(2 * LimitSpan)} \cup {NaN}

LimitMaxima == {1, MaxSearchResults}

(* the program with rate limiting and audit logging left enabled *)
InitPure == InitProgram /\ config.enableRateLimiting /\ config.enableAuditLogging

(* sanitizeLimit(limit, max), in security.ts and in database.ts *)
SanitizeLimitCall ==
  /\ call.fn = "sanitizeLimit" /\ ~call.returned
  /\ call' = [call EXCEPT !.returned = TRUE,
                          !.ret = sanitizeLimit(call.limit, call.max),
                          !.retDb = dbSanitizeLimit(call.limit, call.max)]
  /\ UNCHANGED pureVars

InitSanitize ==
  /\ InitPure
  /\ call \in [fn : {"sanitizeLimit"}, returned : {FALSE}, limit : LimitArgs,
               max : LimitMaxima, ret : {0}, retDb : {0}]

NextSanitize == SanitizeLimitCall

SpecSanitize == InitSanitize /\ [][NextSanitize]_vars

(* Math.floor of a number that is not NaN *)
Floor(n) == n.twice \div 2

(* C16: sanitizeLimit(limit, max) returns 10 whenever limit is not a number
   or its floor is below 1, and min(floor(limit), max) otherwise;
   sanitizeLimit(-5,100) = 10, (0,100) = 10, (37,100) = 37 and
   (500,100) = 100; the definitions in security.ts and database.ts return
   the same value for every input. *)
C16_SanitizeLimitClamps ==
  (call.fn = "sanitizeLimit" /\ call.returned) =>
    /\ (call.limit.nan \/ Floor(call.limit) < 1) => call.ret = 10
    /\ (~call.limit.nan /\ Floor(call.limit) >= 1) =>
         /\ call.ret <= Floor(call.limit) /\ call.ret <= call.max
         /\ call.ret \in {Floor(call.limit), call.max}
    /\ (call.max = 100 /\ call.limit = Num(-5)) => call.ret = 10
    /\ (call.max = 100 /\ call.limit = Num(0)) => call.ret = 10
    /\ (call.max = 100 /\ call.limit = Num(37)) => call.ret = 37
    /\ (call.max = 100 /\ call.limit = Num(500)) => call.ret = 100
    /\ call.retDb = call.ret

(* a limit above the maximum has been capped *)
C16_Witness ==
  /\ call.fn = "sanitizeLimit" /\ call.returned
  /\ call.limit = Num(500) /\ call.max = 100
  /\ call.ret = 100 /\ call.retDb = 100

-----------------------------------------------------------------------------
(* Script text: a string is a sequence of characters here *)

Backslash == "\\"
Quote == "\""
Newline == "\n"
Return13 == "\r"
Tab == "\t"

Chars == {Backslash, Quote, Newline, Return13, Tab, "n", "r", "t", "a"}

Strings == UNION {[1..n -> Chars] : n \in 0..MaxStr}

(* String.prototype.replace(/ch/g, rep) *)
RECURSIVE ReplaceAll(_, _, _)
ReplaceAll(str, ch, rep) ==
  IF str = <<>> THEN <<>>
  ELSE (IF Head(str) = ch THEN rep ELSE <<Head(str)>>)
         \o ReplaceAll(Tail(str), ch, rep)

MutEscapeKeepsBackslash(str) ==
  LET s2 == ReplaceAll(str, Quote, <<Backslash, Quote>>)
      s3 == ReplaceAll(s2, Newline, <<Backslash, "n">>)
      s4 == ReplaceAll(s3, Return13, <<Backslash, "r">>)
  IN ReplaceAll(s4, Tab, <<Backslash, "t">>)

MutEscapeBackslashLast(str) ==
  LET s1 == ReplaceAll(str, Quote, <<Backslash, Quote>>)
      s2 == ReplaceAll(s1, Newline, <<Backslash, "n">>)
      s3 == ReplaceAll(s2, Return13, <<Backslash, "r">>)
      s4 == ReplaceAll(s3, Tab, <<Backslash, "t">>)
  IN ReplaceAll(s4, Backslash, <<Backslash, Backslash>>)

(* the five replacements, in the order of the source *)
escapeAppleScriptString(str) ==
  LET s1 == ReplaceAll(str, Backslash, <<Backslash, Backslash>>)
      s2 == ReplaceAll(s1, Quote, <<Backslash, Quote>>)
      s3 == ReplaceAll(s2, Newline, <<Backslash, "n">>)
      s4 == ReplaceAll(s3, Return13, <<Backslash, "r">>)
  IN ReplaceAll(s4, Tab, <<Backslash, "t">>)

(* what getMailboxesForAccount and getLatestMails put between the quotes
   of `whose name is "..."`: accountName.replace(/"/g, '\\"') *)
AccountNameFragment(accountName) ==
  ReplaceAll(accountName, Quote, <<Backslash, Quote>>)

(* what searchMails puts between the quotes of `set searchString to "..."` *)
SearchStringFragment(validatedSearchTerm) ==
  escapeAppleScriptString(validatedSearchTerm)

EscapeCall ==
  /\ call.fn = "escapeAppleScriptString" /\ ~call.returned
  /\ call' = [call EXCEPT !.returned = TRUE,
                          !.ret = escapeAppleScriptString(call.arg)]
  /\ UNCHANGED pureVars

(* the script text of getMailboxesForAccount or getLatestMails is built *)
AccountScriptCall ==
  /\ call.fn \in {"getMailboxesForAccount", "getLatestMails"} /\ ~call.returned
  /\ call' = [call EXCEPT !.returned = TRUE,
                          !.ret = AccountNameFragment(call.arg)]
  /\ UNCHANGED pureVars

(* the script text of searchMails is built *)
SearchScriptCall ==
  /\ call.fn = "searchMails" /\ ~call.returned
  /\ call' = [call EXCEPT !.returned = TRUE,
                          !.ret = SearchStringFragment(call.arg)]
  /\ UNCHANGED pureVars

ScriptBuilders == {"searchMails", "getMailboxesForAccount", "getLatestMails"}

InitEscape ==
  /\ InitPure
  /\ call \in [fn : {"escapeAppleScriptString"} \cup ScriptBuilders,
               returned : {FALSE}, arg : Strings, ret : {<<>>}]

NextEscape == EscapeCall \/ AccountScriptCall \/ SearchScriptCall

SpecEscape == InitEscape /\ [][NextEscape]_vars

(* The AppleScript reader inside a double-quoted literal: a backslash takes
   the next character with it; the position of the first quote that is
   not taken, Len + 1 when the text ends inside an escape, 0 when the
   whole text is read as the literal's content *)
RECURSIVE LiteralBreak(_, _)
LiteralBreak(text, i) ==
  IF i > Len(text) THEN 0
  ELSE IF text[i] = Backslash
       THEN IF i = Len(text) THEN Len(text) + 1 ELSE LiteralBreak(text, i + 2)
       ELSE IF text[i] = Quote THEN i
            ELSE LiteralBreak(text, i + 1)

StaysInLiteral(text) == LiteralBreak(text, 1) = 0

(* C17: every caller-supplied value interpolated into script text by a mail
   operation is inserted only as the output of escapeAppleScriptString, so
   that no input value can terminate the enclosing double-quoted literal. *)
C17_InterpolatedInputsAreEscaped ==
  (call.fn \in ScriptBuilders /\ call.returned) => StaysInLiteral(call.ret)

(* the number of backslashes that stand immediately before position i *)
RECURSIVE BackslashRun(_, _)
BackslashRun(text, i) ==
  IF i > 1 /\ text[i - 1] = Backslash THEN 1 + BackslashRun(text, i - 1) ELSE 0

Escaped == call.fn = "escapeAppleScriptString" /\ call.returned

(* C18: for every input string s, escapeAppleScriptString(s) contains no
   raw newline, carriage return or tab, and every double quote in it is
   immediately preceded by a run of backslashes of odd length, so that the
   text placed between two double quotes is read as exactly one literal. *)
C18_EscapedTextIsOneLiteral ==
  Escaped =>
    /\ \A i \in DOMAIN call.ret : call.ret[i] \notin {Newline, Return13, Tab}
    /\ \A i \in DOMAIN call.ret :
         call.ret[i] = Quote => BackslashRun(call.ret, i) % 2 = 1
    /\ StaysInLiteral(call.ret)

(* a backslash followed by a double quote has been escaped *)
C18_Witness ==
  /\ Escaped
  /\ call.arg = <<Backslash, Quote>>
  /\ call.ret = <<Backslash, Backslash, Backslash, Quote>>

(* reading left to right, each two-character escape sequence gives back its
   character *)
Unescaped(ch) ==
  CASE ch = "n" -> Newline
    [] ch = "r" -> Return13
    [] ch = "t" -> Tab
    [] OTHER -> ch

RECURSIVE Unescape(_)
Unescape(text) ==
  IF text = <<>> THEN <<>>
  ELSE IF Head(text) = Backslash /\ Len(text) >= 2
       THEN <<Unescaped(text[2])>> \o Unescape(SubSeq(text, 3, Len(text)))
       ELSE <<Head(text)>> \o Unescape(Tail(text))

(* C19: escapeAppleScriptString is exactly reversible: for every string s
   over backslash, double quote, newline, carriage return, tab, the letters
   n, r, t and ordinary characters, unescape(escapeAppleScriptString(s)) = s;
   two different strings therefore never escape to the same text. *)
C19_UnescapeReversesEscape ==
  Escaped => Unescape(call.ret) = call.arg

(* a backslash, the letter n and a newline have been escaped and read back *)
C19_Witness ==
  /\ Escaped
  /\ call.arg = <<Backslash, "n", Newline>>
  /\ call.ret = <<Backslash, Backslash, "n", Backslash, "n">>
  /\ Unescape(call.ret) = call.arg

-----------------------------------------------------------------------------
(* Query text (database.ts): a text is a sequence of characters *)

Apostrophe == "'"

(* a parameter of a query: a string or a number *)
StringParam(str) == [isString |-> TRUE, str |-> str, num |-> 0]

NumberParam(n) == [isString |-> FALSE, str |-> <<>>, num |-> n]

(* String(param) for the numbers drawn *)
DecimalText(n) ==
  <<(0 :> "0" @@ 1 :> "1" @@ 2 :> "2" @@ 3 :> "3" @@ 4 :> "4" @@ 5 :> "5"
       @@ 6 :> "6" @@ 7 :> "7" @@ 8 :> "8" @@ 9 :> "9")[n]>>

(* the literal built for one parameter *)
SqlLiteral(param) ==
  IF param.isString
  THEN <<Apostrophe>> \o ReplaceAll(param.str, Apostrophe, <<Apostrophe, Apostrophe>>)
         \o <<Apostrophe>>
  ELSE DecimalText(param.num)

(* the position of the first ch in text, 0 if there is none *)
IndexOf(text, ch) ==
  IF \E i \in DOMAIN text : text[i] = ch
  THEN CHOOSE i \in DOMAIN text : text[i] = ch /\ \A j \in 1..(i - 1) : text[j] # ch
  ELSE 0

(* the replacement text of String.prototype.replace with its dollar
   patterns expanded: $$, $& and $' (the pattern with a grave accent
   cannot occur: no text here holds one) *)
RECURSIVE ExpandReplacement(_, _, _, _)
ExpandReplacement(rep, before, matched, after) ==
  IF rep = <<>> THEN <<>>
  ELSE IF Head(rep) = "$" /\ Len(rep) >= 2 /\ rep[2] \in {"$", "&", Apostrophe}
       THEN (CASE rep[2] = "$" -> <<"$">>
               [] rep[2] = "&" -> matched
               [] rep[2] = Apostrophe -> after)
              \o ExpandReplacement(SubSeq(rep, 3, Len(rep)), before, matched, after)
       ELSE <<Head(rep)>> \o ExpandReplacement(Tail(rep), before, matched, after)

(* text.replace(ch, rep) with a string pattern: the first occurrence only *)
ReplaceFirst(text, ch, rep) ==
  LET i == IndexOf(text, ch) IN
  IF i = 0 THEN text
  ELSE LET before == SubSeq(text, 1, i - 1)
           after == SubSeq(text, i + 1, Len(text))
       IN before \o ExpandReplacement(rep, before, <<ch>>, after) \o after

(* the loop of executeSqliteQuery over its parameters: the text handed to
   the sqlite3 process *)
RECURSIVE ParameterizedQuery(_, _)
ParameterizedQuery(query, parameters) ==
  IF parameters = <<>> THEN query
  ELSE ParameterizedQuery(ReplaceFirst(query, "?", SqlLiteral(Head(parameters))),
                          Tail(parameters))

buildSafeInClause(values) ==
  IF Len(values) = 0
  THEN [clause |-> <<"(", "N", "U", "L", "L", ")">>, params |-> <<>>]
  ELSE [clause |-> <<"(">> \o Join([i \in 1..Len(values) |-> <<"?">>], ",") \o <<")">>,
        params |-> values]

ParamChars == {"?", Apostrophe, "$", "x"}

ParamValues ==
  {StringParam(str) : str \in UNION {[1..n -> ParamChars] : n \in 0..MaxParam}}
    \cup {NumberParam(0), NumberParam(7)}

(* query templates: written by hand, or the clause buildSafeInClause makes
   for one or two values *)
Templates ==
  {<<"a", "=", "?">>, <<"?", "<", "?">>, <<"a", "=", "?", ";", "?">>,
   buildSafeInClause(<<"v">>).clause, buildSafeInClause(<<"v", "w">>).clause}

Placeholders(template) == Cardinality({i \in DOMAIN template : template[i] = "?"})

ExecuteSqliteQueryCall ==
  /\ call.fn = "executeSqliteQuery" /\ ~call.returned
  /\ call' = [call EXCEPT !.returned = TRUE,
                          !.ret = ParameterizedQuery(call.query, call.parameters)]
  /\ UNCHANGED pureVars

InitQuery ==
  /\ InitPure
  /\ \E query \in Templates :
       call \in [fn : {"executeSqliteQuery"}, returned : {FALSE}, query : {query},
                 parameters : [1..Placeholders(query) -> ParamValues],
                 ret : {<<>>}]

NextQuery == ExecuteSqliteQueryCall

SpecQuery == InitQuery /\ [][NextQuery]_vars

(* the template with its i-th placeholder, counted in the template itself,
   replaced by the literal of the i-th parameter *)
RECURSIVE Substituted(_, _)
Substituted(template, params) ==
  IF template = <<>> THEN <<>>
  ELSE IF Head(template) = "?"
       THEN (IF Head(params).isString
             THEN <<Apostrophe>>
                    \o ReplaceAll(Head(params).str, Apostrophe, <<Apostrophe, Apostrophe>>)
                    \o <<Apostrophe>>
             ELSE DecimalText(Head(params).num))
              \o Substituted(Tail(template), Tail(params))
       ELSE <<Head(template)>> \o Substituted(Tail(template), params)

(* C20: for a query template with k placeholders and k parameters, the
   text executeSqliteQuery passes to the query engine is the template with
   its i-th placeholder, counted left to right in the original template,
   replaced by the literal of the i-th parameter, for every parameter
   value, string values holding a question mark included. *)
C20_PlaceholdersFilledInOrder ==
  (call.fn = "executeSqliteQuery" /\ call.returned) =>
    call.ret = Substituted(call.query, call.parameters)

-----------------------------------------------------------------------------
(* Authentication (security.ts 258-272) *)

TokenChars == {"a", "A", "b"}

(* a value that is either undefined or a string *)
NoString == [defined |-> FALSE, str |-> <<>>]

SomeString(str) == [defined |-> TRUE, str |-> str]

(* process.env.MCP_AUTH_TOKEN, and the token a caller presents: undefined,
   the empty string, or a string of a few characters *)
Tokens ==
  {NoString} \cup {SomeString(str) : str \in UNION {[1..n -> TokenChars] : n \in 0..MaxStr}}

(* !value of a value that is undefined or a string *)
Falsy(value) == ~value.defined \/ value.str = <<>>

(* checkAuthentication, with securityConfig.authToken as first argument *)
checkAuthentication(authToken, token) ==
  IF Falsy(authToken) THEN TRUE ELSE token = authToken

CheckAuthenticationCall ==
  /\ call.fn = "checkAuthentication" /\ ~call.returned
  /\ call' = [call EXCEPT !.returned = TRUE,
                          !.ret = checkAuthentication(call.authToken, call.token)]
  /\ UNCHANGED pureVars

InitAuth ==
  /\ InitPure
  /\ call \in [fn : {"checkAuthentication"}, returned : {FALSE},
               authToken : Tokens, token : Tokens, ret : {FALSE}]

NextAuth == CheckAuthenticationCall

SpecAuth == InitAuth /\ [][NextAuth]_vars

(* C21: with no token configured checkAuthentication returns true for every
   presented token, undefined and empty included; with MCP_AUTH_TOKEN set
   to any value it returns true exactly when the presented token equals
   the configured one, and false for every other value. *)
C21_TokenSetMeansExactMatch ==
  (call.fn = "checkAuthentication" /\ call.returned) =>
    IF call.authToken.defined
    THEN call.ret = (call.token = call.authToken)
    ELSE call.ret = TRUE

-----------------------------------------------------------------------------
(* The audit logger on its own (security.ts 223-246) *)

MaxAudit == 3         \* entries the logger holds in SpecAudit
MaxCount == 4         \* largest count passed to getRecentLogs

(* the entries handed to auditLogger.log, without their timestamp *)
AuditEntries ==
  {[timestamp |-> 0, operation |-> "sendMail", details |-> <<>>,
    success |-> TRUE, error |-> <<>>],
   [timestamp |-> 0, operation |-> "searchMails", details |-> <<>>,
    success |-> FALSE, error |-> <<"denied">>]}

(* Array.prototype.slice(start): a negative start counts from the end *)
Slice(arr, start) ==
  LET k == IF start < 0 THEN Max(Len(arr) + start, 0) ELSE Min(start, Len(arr))
  IN SubSeq(arr, k + 1, Len(arr))

(* AuditLogger.getRecentLogs *)
getRecentLogs(logs, count) == Slice(logs, -count)

NoEntry ==
  [timestamp |-> 0, operation |-> "none", details |-> <<>>,
   success |-> FALSE, error |-> <<>>]

(* auditLogger.log(entry) called directly *)
LogCall(entry) ==
  /\ call.fn \in {"log", "getRecentLogs"}
  /\ Len(auditLog) < MaxAudit
  /\ auditLog' = AuditLoggerLog(auditLog, entry, now)
  /\ call' = [fn |-> "log", entry |-> entry, count |-> 0, ret |-> <<>>]
  /\ UNCHANGED <<now, config, limiterVars, opVars>>

(* auditLogger.getRecentLogs(count) called directly *)
GetRecentLogsCall(count) ==
  /\ call.fn \in {"log", "getRecentLogs"}
  /\ call' = [fn |-> "getRecentLogs", entry |-> NoEntry, count |-> count,
              ret |-> getRecentLogs(auditLog, count)]
  /\ UNCHANGED pureVars

InitAudit ==
  /\ InitPure
  /\ call = [fn |-> "getRecentLogs", entry |-> NoEntry, count |-> 0, ret |-> <<>>]

NextAudit ==
  \/ Tick
  \/ \E entry \in AuditEntries : LogCall(entry)
  \/ \E count \in 0..MaxCount : GetRecentLogsCall(count)

SpecAudit == InitAudit /\ [][NextAudit]_vars

(* the last n entries of a sequence, in order *)
LastN(arr, n) == SubSeq(arr, Len(arr) - Min(n, Len(arr)) + 1, Len(arr))

(* C22: for every n >= 0 and every log of L entries getRecentLogs(n) returns
   exactly the last min(n, L) entries in insertion order, so
   getRecentLogs(0) returns the empty list, and it leaves the log as it
   was. *)
C22_RecentLogsAreLastN ==
  [][call'.fn = "getRecentLogs"
       => /\ call'.ret = LastN(auditLog, call'.count)
          /\ auditLog' = auditLog]_vars

(* the statement of C22 for counts of at least one *)
C22_PositiveCounts ==
  [][(call'.fn = "getRecentLogs" /\ call'.count >= 1)
       => /\ call'.ret = LastN(auditLog, call'.count)
          /\ auditLog' = auditLog]_vars

IsPrefix(a, b) == Len(a) <= Len(b) /\ SubSeq(b, 1, Len(a)) = a

(* C23: the audit log is append-only: each log(entry) extends the sequence
   by exactly one entry at the end, holding the given fields and a
   timestamp, and after any sequence of log and getRecentLogs calls every
   entry appended before is still there, unchanged and in its place. *)
C23_AuditLogAppendOnly ==
  [][/\ IsPrefix(auditLog, auditLog')
     /\ (call'.fn = "log" /\ now' = now)
          => auditLog' = Append(auditLog, [call'.entry EXCEPT !.timestamp = now])
     /\ call'.fn = "getRecentLogs" => auditLog' = auditLog]_vars

C23_Witness ==
  /\ Len(auditLog) = MaxAudit
  /\ auditLog[1].operation # auditLog[2].operation
  /\ call.fn = "getRecentLogs" /\ call.count = 0 /\ call.ret = auditLog

-----------------------------------------------------------------------------
(* The validators on their own, and the values the operations interpolate
   (security.ts 155-179, mail module 362, 513-517) *)

ValidatorPieces == {"a", " ", "eval", "do", "shell", "script"}

(* texts of up to one piece more than the longer of the two maxima *)
ValidatorInputs ==
  UNION {[1..n -> ValidatorPieces] :
           n \in 0..(Max(SearchQueryMax, MessageContentMax) + 1)}

Addresses == {<<"bob", "@", "x.org">>, <<"eval", "@", "x.org">>, <<"bob">>}

OptionalAddresses == {<<>>, <<"al", "@", "x.org">>, <<"eval", "@", "x.org">>}

MessageTexts == {<<"a">>, <<"a", " ", "a">>, <<"exec">>, <<"do", " ", "shell", " ", "script">>}

(* the validated values searchMails puts into its script text *)
SearchMailsScriptValues(searchTerm) == <<validateSearchQuery(searchTerm).value>>

(* the validated values sendMail puts into its script text *)
SendMailScriptValues(to, subject, body, cc, bcc) ==
  <<validateEmail(to).value, validateMessageContent(subject).value,
    validateMessageContent(body).value>>
    \o (IF cc # <<>> THEN <<validateEmail(cc).value>> ELSE <<>>)
    \o (IF bcc # <<>> THEN <<validateEmail(bcc).value>> ELSE <<>>)

PhoneMin == 2         \* phoneNumberSchema.min: 10 in the source
PhoneMax == 4         \* phoneNumberSchema.max: 20 in the source

Digits == {"0", "1", "2", "3", "4", "5", "6", "7", "8", "9"}

(* the class [0-9\s\-().] of the phone number pattern *)
PhoneClass == Digits \cup Whitespace \cup {"-", "(", ")", "."}

(* /^[+]?[0-9\s\-().]+$/ *)
MatchesPhoneFormat(s) ==
  LET rest == IF s # <<>> /\ Head(s) = "+" THEN Tail(s) ELSE s
  IN rest # <<>> /\ \A i \in DOMAIN rest : rest[i] \in PhoneClass

IsDigitOrPlus(c) == c \in Digits \cup {"+"}

(* val.replace(/[^0-9+]/g, '') *)
StripNonDigits(s) == SelectSeq(s, IsDigitOrPlus)

(* phoneNumberSchema.parse inside validatePhoneNumber *)
validatePhoneNumber(phone) ==
  IF Len(phone) < PhoneMin \/ Len(phone) > PhoneMax \/ ~MatchesPhoneFormat(phone)
  THEN Invalid(ValidationError("Invalid phone number", "phoneNumber"))
  ELSE Valid(StripNonDigits(phone))

PhoneChars == {"1", "+", " ", "-", "\t", "x"}

PhoneInputs == UNION {[1..n -> PhoneChars] : n \in 0..(PhoneMax + 1)}

ValidatePhoneNumberCall ==
  /\ call.fn = "validatePhoneNumber" /\ ~call.returned
  /\ call' = [call EXCEPT !.returned = TRUE,
                          !.ret = validatePhoneNumber(call.args[1])]
  /\ UNCHANGED pureVars

ValidateSearchQueryCall ==
  /\ call.fn = "validateSearchQuery" /\ ~call.returned
  /\ call' = [call EXCEPT !.returned = TRUE,
                          !.ret = validateSearchQuery(call.args[1])]
  /\ UNCHANGED pureVars

ValidateMessageContentCall ==
  /\ call.fn = "validateMessageContent" /\ ~call.returned
  /\ call' = [call EXCEPT !.returned = TRUE,
                          !.ret = validateMessageContent(call.args[1])]
  /\ UNCHANGED pureVars

(* searchMails up to the construction of its script, rate limiting aside *)
SearchMailsValidationCall ==
  /\ call.fn = "searchMails" /\ ~call.returned
  /\ LET v == validateSearchQuery(call.args[1]) IN
       call' = [call EXCEPT !.returned = TRUE, !.ret = v,
                            !.values = IF v.ok
                                       THEN SearchMailsScriptValues(call.args[1])
                                       ELSE <<>>]
  /\ UNCHANGED pureVars

(* sendMail up to the construction of its script, rate limiting aside *)
SendMailValidationCall ==
  /\ call.fn = "sendMail" /\ ~call.returned
  /\ LET a == call.args
         v == SendMailValidation(a[1], a[2], a[3], a[4], a[5])
     IN call' = [call EXCEPT !.returned = TRUE, !.ret = v,
                             !.values = IF v.ok
                                        THEN SendMailScriptValues(a[1], a[2], a[3], a[4], a[5])
                                        ELSE <<>>]
  /\ UNCHANGED pureVars

ValidateCalls ==
  [fn : {"validateSearchQuery", "validateMessageContent", "searchMails"},
   args : {<<input>> : input \in ValidatorInputs}]
    \cup [fn : {"validatePhoneNumber"}, args : {<<phone>> : phone \in PhoneInputs}]
    \cup [fn : {"sendMail"},
          args : {<<to, subject, body, cc, bcc>> :
                    to \in Addresses, subject \in MessageTexts, body \in MessageTexts,
                    cc \in OptionalAddresses, bcc \in OptionalAddresses}]

InitValidate ==
  /\ InitPure
  /\ \E c \in ValidateCalls :
       call = [fn |-> c.fn, returned |-> FALSE, args |-> c.args,
               ret |-> Valid(<<>>), values |-> <<>>]

NextValidate ==
  \/ ValidateSearchQueryCall
  \/ ValidateMessageContentCall
  \/ SearchMailsValidationCall
  \/ SendMailValidationCall
  \/ ValidatePhoneNumberCall

SpecValidate == InitValidate /\ [][NextValidate]_vars

(* a validator rejects a text holding a signature and returns none *)
ValidatorRejectsSignatures ==
  /\ containsDangerousPattern(call.args[1])
       => ~call.ret.ok /\ call.ret.error.name = "ValidationError"
  /\ call.ret.ok => ~containsDangerousPattern(call.ret.value)

(* C24: validateSearchQuery and validateMessageContent reject with a
   ValidationError every text that holds a dangerous-pattern signature,
   also when the length constraints pass; so no value either validator
   returns, and no value that reaches the construction of the script in
   searchMails or sendMail, holds a signature. *)
C24_NoSignatureReachesScript ==
  call.returned =>
    /\ call.fn \in {"validateSearchQuery", "validateMessageContent"}
         => ValidatorRejectsSignatures
    /\ call.fn \in {"searchMails", "sendMail"}
         => \A i \in DOMAIN call.values : ~containsDangerousPattern(call.values[i])

(* the statement of C24 without the addresses of sendMail *)
C24_ValidatedTextsOnly ==
  call.returned =>
    /\ call.fn \in {"validateSearchQuery", "validateMessageContent"}
         => ValidatorRejectsSignatures
    /\ call.fn = "searchMails"
         => \A i \in DOMAIN call.values : ~containsDangerousPattern(call.values[i])
    /\ call.fn = "sendMail"
         => \A i \in {2, 3} \cap DOMAIN call.values :
              ~containsDangerousPattern(call.values[i])

(* the separators the phone number format is described with *)
PhoneSeparators == {" ", "-", "(", ")", "."}

RejectedAs(ret, field) ==
  ~ret.ok /\ ret.error.name = "ValidationError" /\ ret.error.field = field

(* the characters of s that are digits or the plus sign, in order *)
RECURSIVE DigitsAndPlusOf(_)
DigitsAndPlusOf(s) ==
  IF s = <<>> THEN <<>>
  ELSE IF Head(s) \in Digits \cup {"+"}
       THEN <<Head(s)>> \o DigitsAndPlusOf(Tail(s))
       ELSE DigitsAndPlusOf(Tail(s))

(* the statement of C25 with the characters in allowed admitted *)
PhoneNumberContract(allowed) ==
  LET phone == call.args[1] IN
  /\ (Len(phone) < PhoneMin \/ Len(phone) > PhoneMax)
       => RejectedAs(call.ret, "phoneNumber")
  /\ (\E i \in DOMAIN phone : phone[i] \notin allowed)
       => RejectedAs(call.ret, "phoneNumber")
  /\ call.ret.ok
       => /\ call.ret.value = DigitsAndPlusOf(phone)
          /\ \A i \in DOMAIN call.ret.value : call.ret.value[i] \in Digits \cup {"+"}

(* C25: validatePhoneNumber rejects with a ValidationError every string
   shorter than the minimum or longer than the maximum length and every
   string holding a character other than a digit, the plus sign and the
   separators space, hyphen, parentheses and dot; for an accepted string it
   returns the input without the characters that are neither digit nor
   plus sign. *)
C25_PhoneNumberCharset ==
  (call.fn = "validatePhoneNumber" /\ call.returned)
    => PhoneNumberContract(Digits \cup {"+"} \cup PhoneSeparators)

(* the statement of C25 with every whitespace character as a separator *)
C25_WhitespaceSeparators ==
  (call.fn = "validatePhoneNumber" /\ call.returned)
    => PhoneNumberContract(Digits \cup {"+"} \cup PhoneSeparators \cup Whitespace)

-----------------------------------------------------------------------------
(* Configuration from the environment (security.ts 121-128, 258-264) *)

LimiterClasses == {"messages", "emails", "search", "write", "global"}

(* the rateLimiters object: each class with the maxRequests it is built with *)
rateLimiters(env) ==
  [messages |-> 10, emails |-> 20, search |-> 30, write |-> 5, global |-> 100]

DigitValue(c) == CHOOSE n \in 0..9 : DecimalText(n) = <<c>>

RECURSIVE ParseDigits(_, _)
ParseDigits(s, acc) ==
  IF s = <<>> \/ Head(s) \notin Digits THEN acc
  ELSE ParseDigits(Tail(s), 10 * acc + DigitValue(Head(s)))

(* parseInt(text, 10) of a text without sign *)
ParseInt(text) ==
  LET t == TrimStart(text)
  IN IF t = <<>> \/ Head(t) \notin Digits THEN NaN ELSE Num(ParseDigits(t, 0))

(* value || fallback *)
OrDefault(value, fallback) == IF Falsy(value) THEN fallback ELSE value.str

(* securityConfig.maxMessageLength; the default text is the maximum of
   messageContentSchema *)
maxMessageLength(env) ==
  ParseInt(OrDefault(env.MAX_MESSAGE_LENGTH, DecimalText(MessageContentMax)))

RateLimitSettings == {NoString, SomeString(<<"7">>)}

LengthSettings ==
  {NoString, SomeString(<<>>), SomeString(<<"2">>), SomeString(<<"6">>),
   SomeString(<<"x">>)}

Environments ==
  [RATE_LIMIT_MESSAGES : RateLimitSettings, RATE_LIMIT_EMAILS : RateLimitSettings,
   RATE_LIMIT_SEARCH : RateLimitSettings, RATE_LIMIT_WRITE : RateLimitSettings,
   RATE_LIMIT_GLOBAL : RateLimitSettings, MAX_MESSAGE_LENGTH : LengthSettings]

Contents == UNION {[1..n -> {"a", "eval"}] : n \in 0..(MessageContentMax + 1)}

NoLimiters == [l \in LimiterClasses |-> 0]

(* the module is loaded: its constants are built from the environment *)
LoadSecurityModule ==
  /\ call.fn = "config" /\ call.stage = "start"
  /\ call' = [call EXCEPT !.stage = "loaded",
                          !.rateLimiters = rateLimiters(call.env),
                          !.maxMessageLength = maxMessageLength(call.env)]
  /\ UNCHANGED pureVars

(* validateMessageContent(content) with the module loaded *)
ConfiguredValidateCall ==
  /\ call.fn = "config" /\ call.stage = "loaded"
  /\ call' = [call EXCEPT !.stage = "validated",
                          !.ret = validateMessageContent(call.content)]
  /\ UNCHANGED pureVars

InitConfig ==
  /\ InitPure
  /\ call \in [fn : {"config"}, stage : {"start"}, env : Environments,
               content : Contents, rateLimiters : {NoLimiters},
               maxMessageLength : {NaN}, ret : {Valid(<<>>)}]

NextConfig == LoadSecurityModule \/ ConfiguredValidateCall

SpecConfig == InitConfig /\ [][NextConfig]_vars

(* the variable that is said to set the limit of a class *)
LimitVariable(env, l) ==
  CASE l = "messages" -> env.RATE_LIMIT_MESSAGES
    [] l = "emails" -> env.RATE_LIMIT_EMAILS
    [] l = "search" -> env.RATE_LIMIT_SEARCH
    [] l = "write" -> env.RATE_LIMIT_WRITE
    [] l = "global" -> env.RATE_LIMIT_GLOBAL

DefaultMaxRequests ==
  [messages |-> 10, emails |-> 20, search |-> 30, write |-> 5, global |-> 100]

(* C26: the maxRequests of each per-class limiter is the value of its
   environment variable (RATE_LIMIT_MESSAGES, _EMAILS, _SEARCH, _WRITE,
   _GLOBAL) when that is set, and otherwise the default 10, 20, 30, 5 and
   100. *)
C26_LimitsFromEnvironment ==
  (call.fn = "config" /\ call.stage # "start") =>
    \A l \in LimiterClasses :
      Num(call.rateLimiters[l]) =
        IF Falsy(LimitVariable(call.env, l))
        THEN Num(DefaultMaxRequests[l])
        ELSE ParseInt(LimitVariable(call.env, l).str)

(* the second half of C26: the defaults *)
C26_DefaultLimits ==
  (call.fn = "config" /\ call.stage # "start") =>
    \A l \in LimiterClasses :
      Falsy(LimitVariable(call.env, l)) => call.rateLimiters[l] = DefaultMaxRequests[l]

(* C27: the maximum length validateMessageContent applies is the configured
   securityConfig.maxMessageLength (MAX_MESSAGE_LENGTH): for every
   configured length m, content of at most m characters without dangerous
   pattern is accepted and longer content is rejected. *)
C27_ConfiguredMessageLength ==
  (call.fn = "config" /\ call.stage = "validated" /\ ~call.maxMessageLength.nan) =>
    LET m == Floor(call.maxMessageLength) IN
    /\ (Len(call.content) \in 1..m /\ ~containsDangerousPattern(call.content))
         => call.ret.ok
    /\ Len(call.content) > m => RejectedAs(call.ret, "message")

(* the statement of C27 for the default length only *)
C27_DefaultMessageLength ==
  (call.fn = "config" /\ call.stage = "validated"
     /\ Falsy(call.env.MAX_MESSAGE_LENGTH)) =>
    LET m == Floor(call.maxMessageLength) IN
    /\ (Len(call.content) \in 1..m /\ ~containsDangerousPattern(call.content))
         => call.ret.ok
    /\ Len(call.content) > m => RejectedAs(call.ret, "message")

-----------------------------------------------------------------------------
(* executeSqliteQuery and its child process (database.ts 36-64) *)

MaxChunks == 2        \* data events per stream

(* the exit code handed to the close listener: a number, or null when a
   signal ended the process *)
Exit(n) == [null |-> FALSE, n |-> n]

Killed == [null |-> TRUE, n |-> 0]

ExitCodes == {Exit(0), Exit(1), Killed}

(* the code of the close event that follows a failed spawn *)
SpawnFailedCode == Exit(-2)

(* `${code}` *)
CodeText(code) ==
  IF code.null THEN <<"null">>
  ELSE IF code.n < 0 THEN <<"-">> \o DecimalText(-code.n)
       ELSE DecimalText(code.n)

(* chunks of bytes: a is a character of one byte, hi and lo are the two
   bytes of one character *)
StdoutChunks == {<<"a">>, <<"hi">>, <<"lo", "a">>, <<"hi", "lo">>}

StderrChunks == {<<"e">>, <<"hi">>}

(* data.toString(): a whole character is decoded, a byte on its own
   becomes the replacement character *)
RECURSIVE BufferToString(_)
BufferToString(data) ==
  IF data = <<>> THEN <<>>
  ELSE IF Len(data) >= 2 /\ data[1] = "hi" /\ data[2] = "lo"
       THEN <<"ch">> \o BufferToString(SubSeq(data, 3, Len(data)))
       ELSE IF Head(data) \in {"hi", "lo"}
            THEN <<"?">> \o BufferToString(Tail(data))
            ELSE <<Head(data)>> \o BufferToString(Tail(data))

SpawnError == Error(<<"spawn sqlite3 ENOENT">>)

(* new Error(`SQLite process exited with code ${code}: ${stderr}`) *)
ExitError(code, stderr) ==
  Error(<<"SQLite process exited with code ">> \o CodeText(code) \o <<": ">> \o stderr)

NoValue == [stdout |-> <<>>, stderr |-> <<>>, error |-> NoError]

MutSettleOverwrites(c, state, value) ==
  [c EXCEPT !.promise = state, !.value = value, !.settleCalls = @ + 1]

(* resolve or reject of the promise: only the first call settles it *)
SettlePromise(c, state, value) ==
  IF c.promise = "pending"
  THEN [c EXCEPT !.promise = state, !.value = value, !.settleCalls = @ + 1]
  ELSE [c EXCEPT !.settleCalls = @ + 1]

(* the close listener *)
OnClose(c, code) ==
  IF code # Exit(0)
  THEN SettlePromise(c, "rejected", [NoValue EXCEPT !.error = ExitError(code, c.stderr)])
  ELSE SettlePromise(c, "resolved", [NoValue EXCEPT !.stdout = c.stdout,
                                                    !.stderr = c.stderr])

(* the error listener *)
OnError(c, error) == SettlePromise(c, "rejected", [NoValue EXCEPT !.error = error])

(* spawn('sqlite3', ...): the process starts, or the spawn fails *)
SpawnSqlite(started) ==
  /\ call.fn = "sqlite" /\ call.proc = "none"
  /\ call' = [call EXCEPT !.proc = IF started THEN "running" ELSE "spawnfailed",
                          !.spawns = @ + 1]
  /\ UNCHANGED pureVars

(* sqlite.stdout.on('data') *)
StdoutData(data) ==
  /\ call.fn = "sqlite" /\ call.proc = "running"
  /\ Len(call.outChunks) < MaxChunks
  /\ call' = [call EXCEPT !.stdout = @ \o BufferToString(data),
                          !.outChunks = Append(@, data)]
  /\ UNCHANGED pureVars

(* sqlite.stderr.on('data') *)
StderrData(data) ==
  /\ call.fn = "sqlite" /\ call.proc = "running"
  /\ Len(call.errChunks) < MaxChunks
  /\ call' = [call EXCEPT !.stderr = @ \o BufferToString(data),
                          !.errChunks = Append(@, data)]
  /\ UNCHANGED pureVars

(* the close events a process in this state can emit *)
CloseCodes(proc) ==
  CASE proc = "running" -> ExitCodes
    [] proc = "errored" -> {SpawnFailedCode}
    [] OTHER -> {}

(* sqlite.on('close') *)
Close(code) ==
  /\ call.fn = "sqlite"
  /\ call' = [OnClose(call, code) EXCEPT !.proc = "closed", !.code = code]
  /\ UNCHANGED pureVars

(* sqlite.on('error'): the spawn failed *)
ErrorEvent ==
  /\ call.fn = "sqlite" /\ call.proc = "spawnfailed"
  /\ call' = [OnError(call, SpawnError) EXCEPT !.proc = "errored", !.errored = TRUE]
  /\ UNCHANGED pureVars

(* the process neither exits nor writes from here on *)
Hang ==
  /\ call.fn = "sqlite" /\ call.proc = "running"
  /\ call' = [call EXCEPT !.proc = "hung"]
  /\ UNCHANGED pureVars

InitProcess ==
  /\ InitPure
  /\ call = [fn |-> "sqlite", proc |-> "none", code |-> Exit(0), errored |-> FALSE,
             stdout |-> <<>>, stderr |-> <<>>, outChunks |-> <<>>, errChunks |-> <<>>,
             promise |-> "pending", value |-> NoValue, settleCalls |-> 0, spawns |-> 0]

NextProcess ==
  \/ \E started \in BOOLEAN : SpawnSqlite(started)
  \/ \E data \in StdoutChunks : StdoutData(data)
  \/ \E data \in StderrChunks : StderrData(data)
  \/ \E code \in CloseCodes(call.proc) : Close(code)
  \/ ErrorEvent
  \/ Hang

SpecProcess == InitProcess /\ [][NextProcess]_vars

(* the event loop runs every listener whose event has been emitted *)
SpecProcessFair == SpecProcess /\ WF_vars(NextProcess)

(* C28: every external process invocation completes: executeSqliteQuery
   resolves or rejects within its timeout also when the process never
   exits and never emits close or error. *)
C28_InvocationSettles ==
  (call.fn = "sqlite" /\ call.proc # "none") ~> (call.promise # "pending")

(* the texts of the chunks, joined in arrival order *)
RECURSIVE Accumulated(_)
Accumulated(chunks) ==
  IF chunks = <<>> THEN <<>>
  ELSE BufferToString(Head(chunks)) \o Accumulated(Tail(chunks))

(* the outcome of a closed invocation, by exit code and spawn error *)
OutcomeClassified ==
  call.proc \in {"errored", "closed"} =>
    /\ call.promise # "pending"
    /\ call.errored
         => call.promise = "rejected" /\ call.value.error = SpawnError
    /\ (~call.errored /\ call.code = Exit(0))
         => /\ call.promise = "resolved"
            /\ call.value.stdout = Accumulated(call.outChunks)
            /\ call.value.stderr = Accumulated(call.errChunks)
    /\ (~call.errored /\ call.code # Exit(0))
         => /\ call.promise = "rejected"
            /\ call.value.error.name = "Error"
            /\ call.value.error.message =
                 <<"SQLite process exited with code ">> \o CodeText(call.code)
                   \o <<": ">> \o Accumulated(call.errChunks)

(* C29: executeSqliteQuery classifies the outcome of the process totally
   and exclusively: exit code 0 resolves with the stdout and stderr
   accumulated from all data chunks in arrival order, any other exit code
   rejects with a failure carrying the captured stderr, a spawn error
   rejects with that error; the invocation settles at most once and the
   process is spawned once. *)
C29_OutcomeClassifiedOnce ==
  [][/\ OutcomeClassified'
     /\ call.promise # "pending"
          => call'.promise = call.promise /\ call'.value = call.value
     /\ call'.spawns <= 1]_vars

(* a failed spawn: the error listener and then the close listener reject *)
C29_RejectedTwice ==
  /\ call.proc = "closed" /\ call.errored /\ call.settleCalls = 2
  /\ call.promise = "rejected"

(* an exit with code 0 after chunks on both streams, one of them ending
   inside a character *)
C29_Witness ==
  /\ call.proc = "closed" /\ call.promise = "resolved"
  /\ Len(call.outChunks) = MaxChunks /\ call.errChunks # <<>>
  /\ call.value.stdout = <<"?", "?", "a">>

-----------------------------------------------------------------------------
(* Concurrent operations on one limiter key (security.ts 96-114, mail
   module 365-372).  One thread runs the program: an operation keeps it
   from its call, or from the settling of what it awaits, to its next
   await. *)

MaxOps == 4           \* operations started in SpecConcurrent

LimiterKey == "global"

NoSnapshot == [table |-> EmptyMap, at |-> 0]

NoObservation ==
  [limiter |-> "none", live |-> FALSE, count |-> 0, allowedBefore |-> 0,
   completedBefore |-> 0]

NoChecks == [allowed |-> 0, completed |-> 0]

(* the limiter the operation at this position is checking *)
LimiterAt(position) ==
  CASE position \in {"read-search", "write-search"} -> "search"
    [] position \in {"read-global", "write-global"} -> "global"
    [] OTHER -> "none"

MutYieldAfterRead(p) == "none"

(* who holds the thread between the statements of check: there is no
   await inside it *)
ThreadAfterRead(p) == p

(* an operation is called: it runs up to the rate check *)
BeginOperation(p) ==
  /\ call.fn = "concurrent" /\ call.thread = "none"
  /\ pc[p] = "idle"
  /\ call.started < MaxOps
  /\ pc' = [pc EXCEPT ![p] = "read-search"]
  /\ call' = [call EXCEPT !.thread = p, !.started = @ + 1]
  /\ UNCHANGED <<now, config, limiterVars, auditLog, op, calls, result>>

(* check, first statements: Date.now() and this.limits.get(key) *)
ReadLimit(p) ==
  /\ call.fn = "concurrent" /\ call.thread = p
  /\ pc[p] \in {"read-search", "read-global"}
  /\ LET l == LimiterAt(pc[p]) IN
       /\ pc' = [pc EXCEPT ![p] = IF l = "search" THEN "write-search"
                                  ELSE "write-global"]
       /\ call' = [call EXCEPT !.local[p] = [table |-> limits[l], at |-> now],
                               !.thread = ThreadAfterRead(p)]
  /\ UNCHANGED <<now, config, limiterVars, auditLog, op, calls, result>>

(* the checks counted in the window of the entry the table holds *)
ChecksAfter(before, tbl, after, allowed) ==
  IF LimiterKey \notin DOMAIN tbl \/ tbl[LimiterKey].resetAt # after[LimiterKey].resetAt
  THEN [allowed |-> 1, completed |-> 1]
  ELSE [allowed |-> before.allowed + (IF allowed THEN 1 ELSE 0),
        completed |-> before.completed + 1]

(* check, the remaining statements, and the operation up to its next
   await: a denial throws, the second limiter is checked after the first
   allowed, await checkMailAccess() follows the second *)
WriteLimit(p) ==
  /\ call.fn = "concurrent" /\ call.thread \in {p, "none"}
  /\ pc[p] \in {"write-search", "write-global"}
  /\ LET l == LimiterAt(pc[p])
         snap == call.local[p]
         c == RateLimiterCheck(snap.table, LimiterKey, snap.at, maxRequests(l))
         live == LimiterKey \in DOMAIN snap.table
                   /\ snap.table[LimiterKey].resetAt > snap.at
     IN /\ limits' = [limits EXCEPT ![l] = c.limits]
        /\ pc' = [pc EXCEPT ![p] = IF ~c.allowed THEN "done"
                                   ELSE IF l = "search" THEN "read-global"
                                   ELSE "await"]
        /\ call' =
             [call EXCEPT
                !.thread = IF c.allowed /\ l = "search" THEN p ELSE "none",
                !.local[p] = NoSnapshot,
                !.checks[l] = ChecksAfter(@, limits[l], c.limits, c.allowed),
                !.observed =
                   [limiter |-> l, live |-> live,
                    count |-> IF live THEN snap.table[LimiterKey].count ELSE 0,
                    allowedBefore |-> call.checks[l].allowed,
                    completedBefore |-> call.checks[l].completed]]
  /\ UNCHANGED <<now, config, hist, lastCheck, auditLog, op, calls, result>>

(* what the operation awaited has settled: it runs to its end *)
Resume(p) ==
  /\ call.fn = "concurrent" /\ call.thread = "none"
  /\ pc[p] = "await"
  /\ pc' = [pc EXCEPT ![p] = "done"]
  /\ UNCHANGED <<now, config, call, limiterVars, auditLog, op, calls, result>>

(* the promise of the operation is consumed *)
Finish(p) ==
  /\ call.fn = "concurrent"
  /\ pc[p] = "done"
  /\ pc' = [pc EXCEPT ![p] = "idle"]
  /\ UNCHANGED <<now, config, call, limiterVars, auditLog, op, calls, result>>

InitConcurrent ==
  /\ InitPure
  /\ call = [fn |-> "concurrent", thread |-> "none", started |-> 0,
             local |-> [p \in Procs |-> NoSnapshot],
             checks |-> [l \in {"search", "global"} |-> NoChecks],
             observed |-> NoObservation]

NextConcurrent ==
  \/ Tick
  \/ \E p \in Procs :
       \/ BeginOperation(p)
       \/ ReadLimit(p)
       \/ WriteLimit(p)
       \/ Resume(p)
       \/ Finish(p)

SpecConcurrent == InitConcurrent /\ [][NextConcurrent]_vars

(* the stored count is the number of checks allowed in the window, which
   is at most maxRequests *)
CountIsAllowedChecks ==
  \A l \in {"search", "global"} :
    /\ LimiterKey \in DOMAIN limits[l]
         => limits[l][LimiterKey].count = call.checks[l].allowed
    /\ call.checks[l].allowed <= maxRequests(l)

(* C30, as stated: under every interleaving of concurrent operations that
   share a limiter key and are suspended only at their awaits, no check
   observes a count lower than the number of checks already completed in
   the current window, the stored count is the number of checks allowed in
   the window, and at most maxRequests checks are allowed per window. *)
C30_NoCheckBelowCompleted ==
  call.fn = "concurrent" =>
    /\ call.observed.live => call.observed.count >= call.observed.completedBefore
    /\ CountIsAllowedChecks

(* C30 with the checks already allowed in place of the checks completed:
   no check observes a count lower than the number of checks already
   allowed in the current window, the stored count is that number, and it
   is at most maxRequests. *)
C30_NoCheckBelowAllowed ==
  call.fn = "concurrent" =>
    /\ call.observed.live => call.observed.count = call.observed.allowedBefore
    /\ CountIsAllowedChecks

(* both operations between two awaits of their own, and a check that saw
   the count the other operation's check had stored *)
C30_Witness ==
  /\ pc["p1"] = "await" /\ pc["p2"] = "await"
  /\ call.observed.live /\ call.observed.count >= 1

-----------------------------------------------------------------------------
(* The checks of a limiter over time (security.ts 96-114) *)

WindowUses == {<<"search", "global">>, <<"global", "other">>}

Times == 0..MaxTime

(* limiter.check(key), with the time of every allowed call kept *)
WindowCheck(l, key) ==
  /\ call.fn = "window"
  /\ LET c == RateLimiterCheck(limits[l], key, now, maxRequests(l)) IN
       /\ limits' = [limits EXCEPT ![l] = c.limits]
       /\ call' = [call EXCEPT !.allowedAt[<<l, key>>][now] =
                                  IF c.allowed THEN @ + 1 ELSE @,
                               !.denied = ~c.allowed]
  /\ UNCHANGED <<now, config, hist, lastCheck, auditLog, opVars>>

InitWindow ==
  /\ InitPure
  /\ call = [fn |-> "window", denied |-> FALSE,
             allowedAt |-> [u \in WindowUses |-> [t \in Times |-> 0]]]

NextWindow ==
  \/ Tick
  \/ \E u \in WindowUses : WindowCheck(u[1], u[2])

SpecWindow == InitWindow /\ [][NextWindow]_vars

(* the calls of use u that returned allowed at a time from a to b *)
RECURSIVE AllowedBetween(_, _, _)
AllowedBetween(u, a, b) ==
  IF a > b THEN 0
  ELSE (IF a \in Times THEN call.allowedAt[u][a] ELSE 0) + AllowedBetween(u, a + 1, b)

(* C31: for any key and any time interval of length windowMs at most
   2 * maxRequests calls of check return allowed, and between one window
   reset and the next, at the times from windowResetAt - windowMs up to
   but not including windowResetAt, at most maxRequests calls return
   allowed. *)
C31_AtMostTwiceMaxPerInterval ==
  call.fn = "window" =>
    \A u \in WindowUses :
      /\ \A t \in Times :
           AllowedBetween(u, t, t + WindowMs) <= 2 * maxRequests(u[1])
      /\ u[2] \in DOMAIN limits[u[1]] =>
           LET resetAt == limits[u[1]][u[2]].resetAt IN
           AllowedBetween(u, resetAt - WindowMs, resetAt - 1) <= maxRequests(u[1])

(* a burst at the end of one window and another at the start of the next *)
C31_Witness ==
  /\ call.fn = "window" /\ call.denied
  /\ \E t \in Times :
       AllowedBetween(<<"search", "global">>, t, t + WindowMs) = 2 * MaxSearch

-----------------------------------------------------------------------------
(* The stored entries of a limiter, under SpecLimiter *)

CountInRange ==
  \A l \in Limiters : \A k \in DOMAIN limits[l] :
    limits[l][k].count >= 1 /\ limits[l][k].count <= maxRequests(l)

(* the entry of key k of limiter l changes as one call of check at the
   current time changes it *)
EntryStep(l, k) ==
  LET new == limits'[l][k]
      fresh == [count |-> 1, resetAt |-> now + WindowMs]
  IN IF k \notin DOMAIN limits[l] THEN new = fresh
     ELSE LET old == limits[l][k] IN
          \/ new = old
          \/ /\ now < old.resetAt
             /\ new = [count |-> old.count + 1, resetAt |-> old.resetAt]
          \/ /\ now >= old.resetAt
             /\ new = fresh

(* C32: in every reachable state of a limiter with maxRequests >= 1 each
   stored entry has 1 <= count <= maxRequests; count is incremented only
   by a check made before windowResetAt, and a check made at or after
   windowResetAt replaces count and windowResetAt together, in one step. *)
C32_EntriesChangeAsAWhole ==
  [][/\ CountInRange'
     /\ \A l \in Limiters : \A k \in DOMAIN limits'[l] : EntryStep(l, k)
     /\ (<<hist, lastCheck>>' # <<hist, lastCheck>> /\ lastCheck'.limiter # "none")
          => LET l == lastCheck'.limiter
                 k == lastCheck'.key
             IN (k \in DOMAIN limits[l] /\ now >= limits[l][k].resetAt)
                  => limits'[l][k] = [count |-> 1, resetAt |-> now + WindowMs]]_vars

(* an entry that was full in its window has been replaced by a check made
   after the window ended *)
C32_Witness ==
  /\ lastCheck.limiter = "search" /\ lastCheck.key = "global"
  /\ LastWindow.rolled /\ LastWindow.n = 1
  /\ LastEntry = [count |-> 1, resetAt |-> now + WindowMs]
  /\ now = MaxTime
  /\ "other" \in DOMAIN limits["search"]
  /\ limits["search"]["other"].count = MaxSearch

-----------------------------------------------------------------------------
(* validateSearchQuery and the trimmed text, under SpecValidate *)

(* C33: validateSearchQuery accepts a raw string exactly when its trimmed
   text is non-empty, at most the maximum length and free of dangerous
   patterns, and then returns the trimmed text; a query of whitespace only
   is rejected and every returned query is non-empty. *)
C33_TrimmedTextDecides ==
  (call.fn = "validateSearchQuery" /\ call.returned) =>
    LET trimmed == Trim(call.args[1]) IN
    /\ call.ret.ok <=> /\ Len(trimmed) >= 1
                       /\ Len(trimmed) <= SearchQueryMax
                       /\ ~containsDangerousPattern(trimmed)
    /\ call.ret.ok => call.ret.value = trimmed /\ call.ret.value # <<>>

(* the statement of C33 with the lengths taken of the raw string *)
C33_RawLengthDecides ==
  (call.fn = "validateSearchQuery" /\ call.returned) =>
    LET trimmed == Trim(call.args[1]) IN
    /\ call.ret.ok <=> /\ Len(call.args[1]) >= 1
                       /\ Len(call.args[1]) <= SearchQueryMax
                       /\ ~containsDangerousPattern(trimmed)
    /\ call.ret.ok => call.ret.value = trimmed

-----------------------------------------------------------------------------
(* The end of sendMail, under Spec *)

(* sendMail ended with a confirmation after a path reported the message
   sent, or with an error *)
ConfirmedOrFailed(p) ==
  \/ /\ result[p] = Confirmed(SentText(op[p].to, op[p].subject))
     /\ \/ PrimaryRan(p) /\ Render(op[p].primary) = <<"success">>
        \/ op[p].secondary = "succeeded"
  \/ result[p].kind = "failure" /\ result[p].error.name = "Error"

(* C34: every sendMail call that passes validation and the rate check ends
   in exactly one of two ways: it returns a confirmation string after the
   primary or the secondary path reported the message sent, or it fails
   with an error; it never completes without a confirmation, with an
   undefined result, also not when the primary script returns, without
   throwing, a result other than "success". *)
C34_SendMailConfirmsOrFails ==
  \A p \in Procs :
    (op[p].name = "sendMail" /\ pc[p] = "done" /\ PassedEntry(op[p])) =>
      ConfirmedOrFailed(p)

(* the statement of C34 without the primary script returning another text *)
C34_UnlessPrimaryReturnsOtherText ==
  \A p \in Procs :
    (op[p].name = "sendMail" /\ pc[p] = "done" /\ PassedEntry(op[p])
       /\ ~(PrimaryRan(p) /\ ~op[p].primary.threw
              /\ Render(op[p].primary) # <<"success">>)) =>
      ConfirmedOrFailed(p)

-----------------------------------------------------------------------------
(* The range of sanitizeLimit, under SpecSanitize *)

(* the number is an integer *)
IsInteger(n) == ~n.nan /\ n.twice % 2 = 0

(* C35: for every integer limit and every configured maximum max >= 1 the
   value sanitizeLimit(limit, max) returns lies in 1..max, so no limit
   passed on to the construction of a script or used to bound a result
   list exceeds the configured maximum. *)
C35_ResultWithinMaximum ==
  (call.fn = "sanitizeLimit" /\ call.returned
     /\ IsInteger(call.limit) /\ call.max >= 1) =>
    call.ret \in 1..call.max

(* the statement of C35 for a maximum of at least the default limit, or
   a limit of at least one *)
C35_WithinMaximumAboveDefault ==
  (call.fn = "sanitizeLimit" /\ call.returned
     /\ IsInteger(call.limit) /\ call.max >= 1
     /\ (call.max >= DefaultLimit \/ Floor(call.limit) >= 1)) =>
    call.ret \in 1..call.max

====
